---- MODULE Spec2Model ----
(***************************************************************************)
(* Configuration validation and loading of cargo-mobile.                   *)
(*                                                                         *)
(* Paths are sequences of components; an absolute path is the sequence of  *)
(* its components below "/".  Strings that are parsed character by         *)
(* character (domains, versions) are sequences of one-character strings.   *)
(* Option<T> is a sequence of length at most one, Result<T, E> a record    *)
(* tagged "Ok" or "Err".                                                   *)
(***************************************************************************)
EXTENDS Integers, Sequences, FiniteSets, TLC

VARIABLES
    fs,     \* the directories and symbolic links of the file system
    files,  \* the config file of each directory: absent, or what it holds
    call,   \* the operation called and its arguments
    ret,    \* what the call returned
    trace   \* the steps the call performed, in order

vars == <<fs, files, call, ret, trace>>

(***************************************************************************)
(* Option and Result                                                       *)
(***************************************************************************)
None == <<>>
Some(x) == <<x>>
IsSome(o) == Len(o) = 1
IsNone(o) == Len(o) = 0
Unwrap(o) == o[1]

Ok(v) == [tag |-> "Ok", val |-> v]
Err(e) == [tag |-> "Err", err |-> e]
NoRet == [tag |-> "None"]
IsOk(r) == r.tag = "Ok"
IsErr(r) == r.tag = "Err"

\* All sequences over S of length at most n.
SeqsUpTo(S, n) == UNION {[1..k -> S] : k \in 0..n}

(***************************************************************************)
(* Bounds of the model                                                     *)
(***************************************************************************)
MaxPathLen == 3
MaxDomainLen == 4
MaxAffixLen == 2
MaxVersionComps == 4
MaxInfoComps == 4

(***************************************************************************)
(* The file system seen by path normalization: the directories that exist  *)
(* and the symbolic links, each link with the canonical directory it       *)
(* points to.                                                              *)
(***************************************************************************)
RootDir == <<"r">>
OutsideDir == <<"o">>
AppName == "app"
SpaceNames == {"s p"}

ParentOf(p) == IF p = <<>> THEN <<>> ELSE SubSeq(p, 1, Len(p) - 1)

StartsWith(p, prefix) ==
    /\ Len(p) >= Len(prefix)
    /\ SubSeq(p, 1, Len(prefix)) = prefix

IsLink(f, p) == p \in DOMAIN f.links

\* Resolution of `rest` below the canonical directory `cur`, the way the OS
\* resolves a path: a link is followed, ".." is the parent of the resolved
\* directory, and a missing component fails the whole resolution.
RECURSIVE Walk(_, _, _)
Walk(f, cur, rest) ==
    IF rest = <<>> THEN Ok(cur)
    ELSE LET c == Head(rest)
             nxt == Append(cur, c)
         IN IF c = ".." THEN Walk(f, ParentOf(cur), Tail(rest))
            ELSE IF IsLink(f, nxt) THEN Walk(f, f.links[nxt], Tail(rest))
            ELSE IF nxt \in f.dirs THEN Walk(f, nxt, Tail(rest))
            ELSE Err("NotFound")

Exists(f, p) == IsOk(Walk(f, <<>>, p))

Canonicalize(f, p) == Walk(f, <<>>, p)

\* path_abs::PathAbs::new on an absolute path: "." and ".." are resolved
\* on the text of the path, without the file system; a ".." that would
\* climb above "/" is an error.
RECURSIVE PathAbsFrom(_, _)
PathAbsFrom(acc, rest) ==
    IF rest = <<>> THEN Ok(acc)
    ELSE IF Head(rest) = ".."
         THEN IF acc = <<>> THEN Err("PathAbsFailed")
              ELSE PathAbsFrom(ParentOf(acc), Tail(rest))
         ELSE PathAbsFrom(Append(acc, Head(rest)), Tail(rest))

PathAbsNew(p) == PathAbsFrom(<<>>, p)

\* A relative or absolute path as the user writes it.
RelPath(comps) == [abs |-> FALSE, comps |-> comps]
AbsPath(comps) == [abs |-> TRUE, comps |-> comps]

\* Path::join: an absolute right-hand side replaces the left-hand side.
Join(root, pd) == IF pd.abs THEN pd.comps ELSE root \o pd.comps

prefix_path(root, pd) == Join(root, pd)

normalize_path(f, p) ==
    IF Exists(f, p)
    THEN LET c == Canonicalize(f, p)
         IN IF IsOk(c) THEN c ELSE Err("CanonicalizationFailed")
    ELSE PathAbsNew(p)

\* under_root without the canonicalization of existing paths.
under_root_lexical(f, pd, root) ==
    IF IsOk(PathAbsNew(Join(root, pd)))
    THEN Ok(StartsWith(PathAbsNew(Join(root, pd)).val, root))
    ELSE PathAbsNew(Join(root, pd))

under_root(f, pd, root) ==
    LET norm == normalize_path(f, Join(root, pd))
    IN IF IsOk(norm) THEN Ok(StartsWith(norm.val, root)) ELSE norm

ContainsSpace(pd) == \E i \in 1..Len(pd.comps) : pd.comps[i] \in SpaceNames

(***************************************************************************)
(* android::config::Config                                                 *)
(***************************************************************************)
ANDROID_DEFAULT_PROJECT_DIR == RelPath(<<"gen", "android">>)

\* from_raw with the check for spaces made before the containment check.
AndroidFromRawSpacesFirst(f, root, raw) ==
    LET r == IF IsSome(raw) THEN Unwrap(raw) ELSE [project_dir |-> None]
    IN IF IsSome(r.project_dir)
       THEN LET project_dir == Unwrap(r.project_dir)
                under == under_root(f, project_dir, root)
            IN IF ContainsSpace(project_dir)
               THEN Err([kind |-> "ContainsSpaces",
                         project_dir |-> project_dir, root_dir |-> root])
               ELSE IF IsErr(under)
               THEN Err([kind |-> "NormalizationFailed",
                         project_dir |-> project_dir, root_dir |-> root])
               ELSE IF under.val
               THEN Ok([root_dir |-> root, project_dir |-> project_dir])
               ELSE Err([kind |-> "OutsideOfAppRoot",
                         project_dir |-> project_dir, root_dir |-> root])
       ELSE Ok([root_dir |-> root, project_dir |-> ANDROID_DEFAULT_PROJECT_DIR])

AndroidFromRaw(f, root, raw) ==
    LET r == IF IsSome(raw) THEN Unwrap(raw) ELSE [project_dir |-> None]
    IN IF IsSome(r.project_dir)
       THEN LET project_dir == Unwrap(r.project_dir)
                under == under_root(f, project_dir, root)
            IN IF IsErr(under)
               THEN Err([kind |-> "NormalizationFailed",
                         project_dir |-> project_dir, root_dir |-> root])
               ELSE IF under.val
                    THEN IF ~ContainsSpace(project_dir)
                         THEN Ok([root_dir |-> root, project_dir |-> project_dir])
                         ELSE Err([kind |-> "ContainsSpaces",
                                   project_dir |-> project_dir, root_dir |-> root])
                    ELSE Err([kind |-> "OutsideOfAppRoot",
                              project_dir |-> project_dir, root_dir |-> root])
       ELSE Ok([root_dir |-> root, project_dir |-> ANDROID_DEFAULT_PROJECT_DIR])

AndroidProjectDir(config) ==
    Append(prefix_path(config.root_dir, config.project_dir), AppName)

(***************************************************************************)
(* Characters and strings                                                  *)
(***************************************************************************)
Digits == {"0", "1", "2", "3", "4", "5", "6", "7", "8", "9"}

AsciiLetters ==
    {"a", "b", "c", "d", "e", "f", "g", "h", "i", "j", "k", "l", "m",
     "n", "o", "p", "q", "r", "s", "t", "u", "v", "w", "x", "y", "z",
     "A", "B", "C", "D", "E", "F", "G", "H", "I", "J", "K", "L", "M",
     "N", "O", "P", "Q", "R", "S", "T", "U", "V", "W", "X", "Y", "Z"}

DigitVal(c) ==
    CASE c = "0" -> 0 [] c = "1" -> 1 [] c = "2" -> 2 [] c = "3" -> 3
      [] c = "4" -> 4 [] c = "5" -> 5 [] c = "6" -> 6 [] c = "7" -> 7
      [] c = "8" -> 8 [] c = "9" -> 9

\* char::is_digit(10)
is_digit(c) == c \in Digits

\* char::is_ascii_alphanumeric
is_ascii_alphanumeric(c) == c \in Digits \cup AsciiLetters

\* str::split("."): the segments between the dots; n dots give n + 1
\* segments, empty ones included.
RECURSIVE SplitFrom(_, _, _)
SplitFrom(s, cur, done) ==
    IF s = <<>> THEN Append(done, cur)
    ELSE IF Head(s) = "." THEN SplitFrom(Tail(s), <<>>, Append(done, cur))
    ELSE SplitFrom(Tail(s), Append(cur, Head(s)), done)

Split(s) == SplitFrom(s, <<>>, <<>>)

\* The text of a sequence of components with a dot between them.
RECURSIVE JoinDots(_)
JoinDots(parts) ==
    IF Len(parts) = 0 THEN <<>>
    ELSE IF Len(parts) = 1 THEN parts[1]
    ELSE parts[1] \o <<".">> \o JoinDots(Tail(parts))

(***************************************************************************)
(* str::parse::<u32>                                                       *)
(***************************************************************************)
\* A u32 is kept as two 16-bit limbs, value = hi * 2^16 + lo, so that the
\* parse overflows exactly above 2^32 - 1.
LimbBase == 256 * 256

U32(n) == [hi |-> n \div LimbBase, lo |-> n % LimbBase]

\* The parse with wrapping instead of checked arithmetic.
RECURSIVE ParseDigitsWrapping(_, _)
ParseDigitsWrapping(s, acc) ==
    IF s = <<>> THEN Ok(acc)
    ELSE IF ~is_digit(Head(s)) THEN Err("InvalidDigit")
    ELSE ParseDigitsWrapping(Tail(s),
             [hi |-> (acc.hi * 10 + ((acc.lo * 10 + DigitVal(Head(s))) \div LimbBase))
                        % LimbBase,
              lo |-> (acc.lo * 10 + DigitVal(Head(s))) % LimbBase])

\* checked_mul(10) followed by checked_add(d)
RECURSIVE ParseDigits(_, _)
ParseDigits(s, acc) ==
    IF s = <<>> THEN Ok(acc)
    ELSE IF ~is_digit(Head(s)) THEN Err("InvalidDigit")
    ELSE LET lo == acc.lo * 10 + DigitVal(Head(s))
             hi == acc.hi * 10 + (lo \div LimbBase)
         IN IF hi >= LimbBase THEN Err("PosOverflow")
            ELSE ParseDigits(Tail(s), [hi |-> hi, lo |-> lo % LimbBase])

ParseU32(s) ==
    IF s = <<>> THEN Err("Empty")
    ELSE IF Len(s) = 1 /\ Head(s) \in {"+", "-"} THEN Err("InvalidDigit")
    ELSE IF Head(s) = "+" THEN ParseDigits(Tail(s), U32(0))
    ELSE ParseDigits(s, U32(0))

(***************************************************************************)
(* util::VersionTriple, util::VersionDouble, apple::VersionNumber          *)
(***************************************************************************)
VersionTriple(major, minor, patch) ==
    [major |-> major, minor |-> minor, patch |-> patch]

VersionDouble(major, minor) == [major |-> major, minor |-> minor]

VersionErr(kind, v) == Err([kind |-> kind, version |-> v])

\* The `?` chain over the parsed components: the first failure returns.
TripleOf(major, minor, patch, v) ==
    IF IsErr(major) THEN VersionErr("MajorInvalid", v)
    ELSE IF IsErr(minor) THEN VersionErr("MinorInvalid", v)
    ELSE IF IsErr(patch) THEN VersionErr("PatchInvalid", v)
    ELSE Ok(VersionTriple(major.val, minor.val, patch.val))

DoubleOf(major, minor, v) ==
    IF IsErr(major) THEN VersionErr("MajorInvalid", v)
    ELSE IF IsErr(minor) THEN VersionErr("MinorInvalid", v)
    ELSE Ok(VersionDouble(major.val, minor.val))

\* VersionTriple::from_split on the first three segments of `parts`.
VersionTripleFromSplit(parts, v) ==
    TripleOf(ParseU32(parts[1]), ParseU32(parts[2]), ParseU32(parts[3]), v)

VersionTripleFromParts(parts, v) ==
    CASE Len(parts) = 1 -> TripleOf(ParseU32(v), Ok(U32(0)), Ok(U32(0)), v)
      [] Len(parts) = 2 ->
             TripleOf(ParseU32(parts[1]), ParseU32(parts[2]), Ok(U32(0)), v)
      [] Len(parts) = 3 -> VersionTripleFromSplit(parts, v)
      [] OTHER -> VersionErr("VersionStringInvalid", v)

VersionTripleFromStr(v) == VersionTripleFromParts(Split(v), v)

VersionDoubleFromParts(parts, v) ==
    CASE Len(parts) = 1 -> DoubleOf(ParseU32(v), Ok(U32(0)), v)
      [] Len(parts) = 2 -> DoubleOf(ParseU32(parts[1]), ParseU32(parts[2]), v)
      [] OTHER -> VersionErr("VersionStringInvalid", v)

VersionDoubleFromStr(v) == VersionDoubleFromParts(Split(v), v)

\* The extra components of a version number: every segment after the
\* third parsed as u32, the first failure ending the collection.
RECURSIVE ParseExtra(_, _, _)
ParseExtra(parts, acc, v) ==
    IF parts = <<>> THEN Ok(acc)
    ELSE IF IsErr(ParseU32(Head(parts))) THEN VersionErr("ExtraVersionInvalid", v)
    ELSE ParseExtra(Tail(parts), Append(acc, ParseU32(Head(parts)).val), v)

\* From<VersionTripleError> for VersionNumberError, then the extras.
VersionNumberOf(triple, extra) ==
    IF IsErr(triple) THEN Err([kind |-> "VersionTripleInvalid", cause |-> triple.err])
    ELSE IF IsErr(extra) THEN extra
    ELSE Ok([triple |-> triple.val, extra |-> extra.val])

VersionNumberFromParts(parts, v) ==
    IF Len(parts) \in {1, 2, 3}
    THEN VersionNumberOf(VersionTripleFromStr(v), Ok(None))
    ELSE VersionNumberOf(VersionTripleFromSplit(parts, v),
                         ParseExtra(SubSeq(parts, 4, Len(parts)), <<>>, v))

VersionNumberFromStr(v) == VersionNumberFromParts(Split(v), v)

(***************************************************************************)
(* apple::config::VersionInfo and apple::config::Config                    *)
(***************************************************************************)
APPLE_DEFAULT_PROJECT_DIR == RelPath(<<"gen", "apple">>)
DEFAULT_BUNDLE_VERSION ==
    [triple |-> VersionTriple(U32(1), U32(0), U32(0)), extra |-> None]
DEFAULT_IOS_VERSION == VersionDouble(U32(9), U32(0))
DEFAULT_MACOS_VERSION == VersionDouble(U32(11), U32(0))

AppleErr(kind) == Err([kind |-> kind])

\* Result<T, E> to Result<Option<T>, E>
OkSome(r) == IF IsOk(r) THEN Ok(Some(r.val)) ELSE r

\* Option::map(parse).transpose() of the three version types
OptVersionNumber(opt) ==
    IF IsSome(opt) THEN OkSome(VersionNumberFromStr(Unwrap(opt))) ELSE Ok(None)

OptVersionTriple(opt) ==
    IF IsSome(opt) THEN OkSome(VersionTripleFromStr(Unwrap(opt))) ELSE Ok(None)

OptVersionDouble(opt) ==
    IF IsSome(opt) THEN OkSome(VersionDoubleFromStr(Unwrap(opt))) ELSE Ok(None)

\* VersionInfo::from_raw with the two configuration checks made before the
\* parse errors are returned.
VersionInfoOfChecksFirst(version_number, short_version_number) ==
    IF (IsErr(short_version_number) \/ IsSome(short_version_number.val))
         /\ IsOk(version_number) /\ IsNone(version_number.val)
    THEN AppleErr("InvalidVersionConfiguration")
    ELSE IF IsErr(version_number)
    THEN Err([kind |-> "IosVersionNumberInvalid", cause |-> version_number.err])
    ELSE IF IsErr(short_version_number)
    THEN Err([kind |-> "BundleVersionInvalid", cause |-> short_version_number.err])
    ELSE IF /\ IsSome(version_number.val)
            /\ IsSome(short_version_number.val)
            /\ Unwrap(version_number.val).triple # Unwrap(short_version_number.val)
    THEN AppleErr("IosVersionNumberMismatch")
    ELSE Ok([version_number |-> version_number.val,
             short_version_number |-> short_version_number.val])

\* VersionInfo::from_raw once both strings went through the parsers.
VersionInfoOf(version_number, short_version_number) ==
    IF IsErr(version_number)
    THEN Err([kind |-> "IosVersionNumberInvalid", cause |-> version_number.err])
    ELSE IF IsErr(short_version_number)
    THEN Err([kind |-> "BundleVersionInvalid", cause |-> short_version_number.err])
    ELSE IF IsSome(short_version_number.val) /\ IsNone(version_number.val)
    THEN AppleErr("InvalidVersionConfiguration")
    ELSE IF /\ IsSome(version_number.val)
            /\ IsSome(short_version_number.val)
            /\ Unwrap(version_number.val).triple # Unwrap(short_version_number.val)
    THEN AppleErr("IosVersionNumberMismatch")
    ELSE Ok([version_number |-> version_number.val,
             short_version_number |-> short_version_number.val])

VersionInfoFromRaw(version_string, short_version_string) ==
    VersionInfoOf(OptVersionNumber(version_string),
                  OptVersionTriple(short_version_string))

\* The error variant an unparseable `macos-version` is wrapped in.
MacosVersionErrorKind == "IosVersionInvalid"

\* The project-dir of the raw config, checked when given.
AppleCheckProjectDir(f, root, project_dir) ==
    IF IsNone(project_dir) THEN Ok(APPLE_DEFAULT_PROJECT_DIR)
    ELSE IF IsErr(under_root(f, Unwrap(project_dir), root))
    THEN Err([kind |-> "NormalizationFailed",
              project_dir |-> Unwrap(project_dir), root_dir |-> root])
    ELSE IF under_root(f, Unwrap(project_dir), root).val
    THEN Ok(Unwrap(project_dir))
    ELSE Err([kind |-> "OutsideOfAppRoot",
              project_dir |-> Unwrap(project_dir), root_dir |-> root])

UnwrapOr(opt, default) == IF IsSome(opt) THEN Unwrap(opt) ELSE default

\* Config::from_raw from the development-team check on, each `?` in the
\* order of the source: project-dir, bundle versions, ios, macos.
AppleConfigOf(root, team, project_dir, info, ios, macos) ==
    IF team = <<>> THEN AppleErr("DevelopmentTeamEmpty")
    ELSE IF IsErr(project_dir) THEN project_dir
    ELSE IF IsErr(info) THEN info
    ELSE IF IsErr(ios) THEN Err([kind |-> "IosVersionInvalid", cause |-> ios.err])
    ELSE IF IsErr(macos) THEN Err([kind |-> MacosVersionErrorKind, cause |-> macos.err])
    ELSE Ok([root_dir |-> root,
             development_team |-> team,
             project_dir |-> project_dir.val,
             bundle_version |->
                 UnwrapOr(info.val.version_number, DEFAULT_BUNDLE_VERSION),
             bundle_version_short |->
                 UnwrapOr(info.val.short_version_number,
                          UnwrapOr(info.val.version_number,
                                   DEFAULT_BUNDLE_VERSION).triple),
             ios_version |-> UnwrapOr(ios.val, DEFAULT_IOS_VERSION),
             macos_version |-> UnwrapOr(macos.val, DEFAULT_MACOS_VERSION)])

AppleFromUnwrapped(f, root, raw) ==
    AppleConfigOf(root, raw.development_team,
                  AppleCheckProjectDir(f, root, raw.project_dir),
                  VersionInfoFromRaw(raw.bundle_version, raw.bundle_version_short),
                  OptVersionDouble(raw.ios_version),
                  OptVersionDouble(raw.macos_version))

AppleFromRaw(f, root, raw_opt) ==
    IF IsNone(raw_opt) THEN AppleErr("DevelopmentTeamMissing")
    ELSE AppleFromUnwrapped(f, root, Unwrap(raw_opt))

AppleProjectDir(config) == prefix_path(config.root_dir, config.project_dir)

\* The configuration key and the complaint of Error::report.
AppleErrorReport(kind) ==
    CASE kind = "DevelopmentTeamMissing" -> "apple.development-team must be specified"
      [] kind = "DevelopmentTeamEmpty" -> "apple.development-team is empty"
      [] kind \in {"NormalizationFailed", "OutsideOfAppRoot"} -> "apple.project-dir invalid"
      [] kind = "BundleVersionInvalid" -> "apple.app-version invalid"
      [] kind = "IosVersionInvalid" -> "apple.ios-version invalid"
      [] kind = "MacOsVersionInvalid" -> "apple.macos-version invalid"
      [] kind = "IosVersionNumberInvalid" -> "apple.app-version invalid"
      [] kind = "IosVersionNumberMismatch" -> "apple.app-version mismatch"
      [] kind = "InvalidVersionConfiguration" -> "apple.app-version short without long"

(***************************************************************************)
(* config::app::domain::check_domain_syntax                                *)
(***************************************************************************)
RESERVED_PACKAGE_NAMES == {<<"k", "o", "t", "l", "i", "n">>, <<"j", "a", "v", "a">>}

Contains(seq, x) == \E i \in 1..Len(seq) : seq[i] = x

\* The bad characters collected without the `contains` test.
RECURSIVE BadCharsRepeated(_, _)
BadCharsRepeated(label, bad_chars) ==
    IF label = <<>> THEN bad_chars
    ELSE IF ~is_ascii_alphanumeric(Head(label))
    THEN BadCharsRepeated(Tail(label), Append(bad_chars, Head(label)))
    ELSE BadCharsRepeated(Tail(label), bad_chars)

\* The characters of `label` that are not ASCII alphanumeric, each once,
\* in the order of their first occurrence.
RECURSIVE BadChars(_, _)
BadChars(label, bad_chars) ==
    IF label = <<>> THEN bad_chars
    ELSE LET c == Head(label)
         IN IF ~is_ascii_alphanumeric(c) /\ ~Contains(bad_chars, c)
            THEN BadChars(Tail(label), Append(bad_chars, c))
            ELSE BadChars(Tail(label), bad_chars)

\* The loop over the labels: the first label that fails a check returns.
RECURSIVE CheckLabels(_)
CheckLabels(labels) ==
    IF labels = <<>> THEN Ok(<<>>)
    ELSE LET label == Head(labels)
         IN IF label = <<>> THEN Err([kind |-> "EmptyLabel"])
            ELSE IF is_digit(label[1])
            THEN Err([kind |-> "StartsWithDigit", label |-> label])
            ELSE IF BadChars(label, <<>>) # <<>>
            THEN Err([kind |-> "NotAsciiAlphanumeric",
                      bad_chars |-> BadChars(label, <<>>)])
            ELSE CheckLabels(Tail(labels))

\* check_domain_syntax with the reserved names refused in every label.
check_domain_syntax_any_label(domain_name) ==
    IF domain_name = <<>> THEN Err([kind |-> "Empty"])
    ELSE IF Head(domain_name) = "." \/ domain_name[Len(domain_name)] = "."
    THEN Err([kind |-> "StartsOrEndsWithADot"])
    ELSE LET labels == Split(domain_name)
             checked == CheckLabels(labels)
         IN IF IsErr(checked) THEN checked
            ELSE IF \E i \in 1..Len(labels) : labels[i] \in RESERVED_PACKAGE_NAMES
            THEN Err([kind |-> "ReservedPackageName",
                      package_name |-> labels[CHOOSE i \in 1..Len(labels) :
                                                  labels[i] \in RESERVED_PACKAGE_NAMES]])
            ELSE Ok(<<>>)

check_domain_syntax(domain_name) ==
    IF domain_name = <<>> THEN Err([kind |-> "Empty"])
    ELSE IF Head(domain_name) = "." \/ domain_name[Len(domain_name)] = "."
    THEN Err([kind |-> "StartsOrEndsWithADot"])
    ELSE LET labels == Split(domain_name)
             checked == CheckLabels(labels)
             last_label == labels[Len(labels)]
         IN IF IsErr(checked) THEN checked
            ELSE IF last_label \in RESERVED_PACKAGE_NAMES
            THEN Err([kind |-> "ReservedPackageName", package_name |-> last_label])
            ELSE Ok(<<>>)

(***************************************************************************)
(* Project-directory validation: Config::from_raw of both platforms on     *)
(* every project-dir of at most MaxPathLen components, in every file       *)
(* system of FsStates.                                                     *)
(***************************************************************************)
PathComps == {"..", "ln", "new", "s p", "r"}

\* The project-dirs of at most n components.
ProjectDirs(n) ==
    {[abs |-> a, comps |-> c] : a \in BOOLEAN, c \in SeqsUpTo(PathComps, n)}

\* /r is the app root and /o a directory outside of it.  /r/gen is absent,
\* a directory or a link to /o; /r/ln is absent, a link to /o or a link to
\* /r; /r/new exists or not.
FsStates ==
    {[dirs |-> {<<>>, RootDir, OutsideDir}
                 \cup (IF gen = "dir" THEN {<<"r", "gen">>} ELSE {})
                 \cup (IF new THEN {<<"r", "new">>} ELSE {}),
      links |-> [p \in (IF gen = "link" THEN {<<"r", "gen">>} ELSE {})
                         \cup (IF ln # "absent" THEN {<<"r", "ln">>} ELSE {})
                   |-> IF p = <<"r", "ln">> /\ ln = "in" THEN RootDir ELSE OutsideDir]]
        : gen \in {"absent", "dir", "link"},
          ln \in {"absent", "out", "in"},
          new \in BOOLEAN}

NoVersions ==
    [bundle_version |-> None, bundle_version_short |-> None,
     ios_version |-> None, macos_version |-> None]

AppleRaw(team, project_dir, versions) ==
    [development_team |-> team, project_dir |-> project_dir,
     bundle_version |-> versions.bundle_version,
     bundle_version_short |-> versions.bundle_version_short,
     ios_version |-> versions.ios_version,
     macos_version |-> versions.macos_version]

TeamIds == {<<>>, <<"T">>}

OptionOf(S) == {None} \cup {Some(x) : x \in S}

PathCalls(dirs) ==
    {[op |-> "android", raw |-> None]}
      \cup {[op |-> "android", raw |-> Some([project_dir |-> pd])]
              : pd \in OptionOf(dirs)}
      \cup {[op |-> "apple", raw |-> None]}
      \cup {[op |-> "apple", raw |-> Some(AppleRaw(team, pd, NoVersions))]
              : team \in TeamIds, pd \in OptionOf(dirs)}

NoFiles == <<>>

Pending == ret.tag = "None"

AndroidConfigFromRaw ==
    /\ call.op = "android"
    /\ Pending
    /\ ret' = AndroidFromRaw(fs, RootDir, call.raw)
    /\ UNCHANGED <<fs, files, call, trace>>

AppleConfigFromRaw ==
    /\ call.op = "apple"
    /\ Pending
    /\ ret' = AppleFromRaw(fs, RootDir, call.raw)
    /\ UNCHANGED <<fs, files, call, trace>>

InitPath ==
    /\ call \in PathCalls(ProjectDirs(MaxPathLen))
    /\ fs \in FsStates
    /\ files = NoFiles
    /\ ret = NoRet
    /\ trace = <<>>

NextPath == AndroidConfigFromRaw \/ AppleConfigFromRaw

SpecPath == InitPath /\ [][NextPath]_vars

(***************************************************************************)
(* Domain syntax: check_domain_syntax on every string of at most           *)
(* MaxDomainLen characters and on the reserved names with at most          *)
(* MaxAffixLen characters before and after them.                           *)
(***************************************************************************)
DomainAlphabet == {"a", "7", ".", "-", "u30E9"}

AffixAlphabet == {"a", "7", "."}

\* The strings of at most n characters, and the reserved names with at
\* most m characters before and after them.
DomainInputs(n, m) ==
    SeqsUpTo(DomainAlphabet, n)
      \cup {pre \o w \o post : w \in RESERVED_PACKAGE_NAMES,
                               pre \in SeqsUpTo(AffixAlphabet, m),
                               post \in SeqsUpTo(AffixAlphabet, m)}

PlainFs == [dirs |-> {<<>>, RootDir, OutsideDir}, links |-> <<>>]

CheckDomainSyntax ==
    /\ call.op = "check_domain_syntax"
    /\ Pending
    /\ ret' = check_domain_syntax(call.domain_name)
    /\ UNCHANGED <<fs, files, call, trace>>

InitDomain ==
    /\ call \in {[op |-> "check_domain_syntax", domain_name |-> d]
                   : d \in DomainInputs(MaxDomainLen, MaxAffixLen)}
    /\ fs = PlainFs
    /\ files = NoFiles
    /\ ret = NoRet
    /\ trace = <<>>

NextDomain == CheckDomainSyntax

SpecDomain == InitDomain /\ [][NextDomain]_vars

(***************************************************************************)
(* Version strings: VersionTriple::from_str on every string of at most     *)
(* MaxVersionComps components, VersionInfo::from_raw on every pair of      *)
(* optional strings of at most MaxInfoComps components, and Apple's        *)
(* Config::from_raw on raw configs with and without each version key.      *)
(***************************************************************************)
VersionComps ==
    {<<>>, <<"0">>, <<"7">>, <<"+", "7">>, <<"x">>,
     <<"4", "2", "9", "4", "9", "6", "7", "2", "9", "5">>,
     <<"4", "2", "9", "4", "9", "6", "7", "2", "9", "6">>}

\* The strings of 1..n components of S, dots between them.
DottedStrings(S, n) == {JoinDots(parts) : parts \in SeqsUpTo(S, n) \ {<<>>}}

InfoComps == {<<"0">>, <<"1">>, <<"x">>}

OsVersionStrings ==
    {<<"9">>, <<"x">>, <<"9", ".", "0">>, <<"9", ".", "x">>,
     <<"1", ".", "2", ".", "3">>}

AppleVersionCalls ==
    {[op |-> "apple", raw |-> None]}
      \cup {[op |-> "apple",
             raw |-> Some(AppleRaw(team, pd,
                        [bundle_version |-> bv, bundle_version_short |-> bvs,
                         ios_version |-> ios, macos_version |-> macos]))]
              : team \in TeamIds,
                pd \in {None, Some(RelPath(<<"..">>))},
                bv \in {None, Some(<<"1">>)},
                bvs \in {None, Some(<<"1">>), Some(<<"x">>)},
                ios \in OptionOf(OsVersionStrings),
                macos \in OptionOf(OsVersionStrings)}

TripleCalls(strings) == {[op |-> "VersionTriple::from_str", v |-> v] : v \in strings}

InfoCalls(strings) ==
    {[op |-> "VersionInfo::from_raw", version_string |-> vs, short_version_string |-> ss]
        : vs \in OptionOf(strings), ss \in OptionOf(strings)}

VersionTripleFromStrCall ==
    /\ call.op = "VersionTriple::from_str"
    /\ Pending
    /\ ret' = VersionTripleFromStr(call.v)
    /\ UNCHANGED <<fs, files, call, trace>>

VersionInfoFromRawCall ==
    /\ call.op = "VersionInfo::from_raw"
    /\ Pending
    /\ ret' = VersionInfoFromRaw(call.version_string, call.short_version_string)
    /\ UNCHANGED <<fs, files, call, trace>>

InitVersion ==
    /\ \/ call \in TripleCalls(DottedStrings(VersionComps, MaxVersionComps))
       \/ call \in InfoCalls(DottedStrings(InfoComps, MaxInfoComps))
       \/ call \in AppleVersionCalls
    /\ fs = PlainFs
    /\ files = NoFiles
    /\ ret = NoRet
    /\ trace = <<>>

NextVersion == VersionTripleFromStrCall \/ VersionInfoFromRawCall \/ AppleConfigFromRaw

SpecVersion == InitVersion /\ [][NextVersion]_vars

(***************************************************************************)
(* config::Raw and config::Config: discovery, loading and generation of    *)
(* the config file.  `files` gives what the config file of each directory  *)
(* holds; `trace` lists the steps of the last call in order, each with     *)
(* whether it succeeded.                                                   *)
(***************************************************************************)
file_name == "cargo-mobile.toml"

Absent == [kind |-> "absent"]
\* A config file that exists and that fs::read fails on.
Unreadable == [kind |-> "unreadable"]
\* Bytes that are not the TOML of a Raw.
Unparsable == [kind |-> "unparsable"]
Toml(raw) == [kind |-> "toml", raw |-> raw]

Step(name, ok) == [step |-> name, ok |-> ok]

Outcome(r, fl, tr) == [ret |-> r, files |-> fl, trace |-> tr]

\* NonInteractive::no
no(non_interactive) == non_interactive = "No"

\* App::from_raw: the app section is accepted or rejected as a whole, and
\* the App keeps the root directory it is given.
AppFromRaw(root_dir, raw_app) ==
    IF raw_app = "valid" THEN Ok([root_dir |-> root_dir])
    ELSE Err([kind |-> "AppInvalid"])

\* Config::from_raw after App::from_raw, each `?` in the order of the code.
ConfigOf(app, apple, android, env) ==
    IF IsErr(apple) THEN Err([kind |-> "AppleConfigInvalid", cause |-> apple.err])
    ELSE IF IsErr(android)
    THEN Err([kind |-> "AndroidConfigInvalid", cause |-> android.err])
    ELSE Ok([app |-> app, apple |-> apple.val, android |-> android.val, env |-> env])

ConfigOfApp(f, app, raw) ==
    IF IsErr(app) THEN Err([kind |-> "AppConfigInvalid", cause |-> app.err])
    ELSE ConfigOf(app.val,
                  AppleFromRaw(f, app.val.root_dir, raw.apple),
                  AndroidFromRaw(f, app.val.root_dir, raw.android),
                  raw.env)

ConfigFromRaw(f, root_dir, raw) == ConfigOfApp(f, AppFromRaw(root_dir, raw.app), raw)

\* Path::exists on the config file of a canonical directory.
FileExists(fl, dir) == fl[dir].kind # "absent"

\* discover_root looking into the directory of cwd alone.
DiscoverFromCwdOnly(fl, dir) == IF FileExists(fl, dir) THEN Some(dir) ELSE None

\* The loop of discover_root from the canonical directory `dir` upwards.
RECURSIVE DiscoverFrom(_, _)
DiscoverFrom(fl, dir) ==
    IF FileExists(fl, dir) THEN Some(dir)
    ELSE IF dir = <<>> THEN None
    ELSE DiscoverFrom(fl, ParentOf(dir))

\* The file of a path as the user wrote it: Path::exists resolves the links.
LexicalExists(f, fl, p) ==
    IsOk(Canonicalize(f, p)) /\ FileExists(fl, Canonicalize(f, p).val)

RECURSIVE LexicalFrom(_, _, _)
LexicalFrom(f, fl, p) ==
    IF LexicalExists(f, fl, p) THEN Some(p)
    ELSE IF p = <<>> THEN None
    ELSE LexicalFrom(f, fl, ParentOf(p))

\* discover_root searching upwards from cwd as written, not canonicalized.
discover_root_lexical(f, fl, cwd) ==
    IF IsErr(Canonicalize(f, cwd)) THEN Canonicalize(f, cwd)
    ELSE Ok(LexicalFrom(f, fl, cwd))

DiscoverOf(fl, canonical) ==
    IF IsErr(canonical) THEN canonical ELSE Ok(DiscoverFrom(fl, canonical.val))

discover_root(f, fl, cwd) == DiscoverOf(fl, Canonicalize(f, cwd))

\* The closure of Raw::load: read and parse the file of the discovered root.
ReadAndParse(fl, root_dir) ==
    IF fl[root_dir].kind = "unreadable"
    THEN Err([kind |-> "ReadFailed", path |-> Append(root_dir, file_name)])
    ELSE IF fl[root_dir].kind = "unparsable"
    THEN Err([kind |-> "ParseFailed", path |-> Append(root_dir, file_name)])
    ELSE Ok(Some([root_dir |-> root_dir, raw |-> fl[root_dir].raw]))

LoadOf(fl, root) ==
    IF IsErr(root) THEN Err([kind |-> "DiscoverFailed"])
    ELSE IF IsNone(root.val) THEN Ok(None)
    ELSE ReadAndParse(fl, Unwrap(root.val))

load(f, fl, cwd) == LoadOf(fl, discover_root(f, fl, cwd))

\* Raw::write: `w` is what serializing and fs::write come to.  A failed
\* fs::write leaves the file as it was, or created and incomplete.
write(fl, root_dir, raw, w) ==
    IF w = "SerializeFailed"
    THEN [ret |-> Err([kind |-> "SerializeFailed"]), files |-> fl]
    ELSE IF w = "WriteFailed"
    THEN [ret |-> Err([kind |-> "WriteFailed"]), files |-> fl]
    ELSE IF w = "WriteFailedPartway"
    THEN [ret |-> Err([kind |-> "WriteFailed"]),
          files |-> [fl EXCEPT ![root_dir] = Unparsable]]
    ELSE [ret |-> Ok(<<>>), files |-> [fl EXCEPT ![root_dir] = Toml(raw)]]

GenError(kind, cause) == Err([kind |-> kind, cause |-> cause])

\* The last two statements of Config::gen.
GenWrite(config, written, tr) ==
    IF IsErr(written.ret)
    THEN Outcome(GenError("WriteFailed", written.ret.err), written.files,
                 Append(tr, Step("write", FALSE)))
    ELSE Outcome(Ok(config), written.files, Append(tr, Step("write", TRUE)))

\* Config::gen with the write made before the validation.
GenValidatedAfterWrite(fl, root_dir, raw, config, w, tr) ==
    IF IsErr(write(fl, root_dir, raw, w).ret)
    THEN GenWrite(<<>>, write(fl, root_dir, raw, w), tr)
    ELSE IF IsErr(config)
    THEN Outcome(GenError("FromRawFailed", config.err),
                 write(fl, root_dir, raw, w).files,
                 tr \o <<Step("write", TRUE), Step("from_raw", FALSE)>>)
    ELSE Outcome(Ok(config.val),
                 write(fl, root_dir, raw, w).files,
                 tr \o <<Step("write", TRUE), Step("from_raw", TRUE)>>)

\* Config::gen from the result of Config::from_raw on.
GenValidated(fl, root_dir, raw, config, w, tr) ==
    IF IsErr(config)
    THEN Outcome(GenError("FromRawFailed", config.err), fl,
                 Append(tr, Step("from_raw", FALSE)))
    ELSE GenWrite(config.val, write(fl, root_dir, raw, w),
                  Append(tr, Step("from_raw", TRUE)))

\* Config::gen from the result of the canonicalization of cwd on.  The
\* directory may have become unreachable since Raw::load canonicalized it:
\* env.canonicalize.
GenCanonicalized(f, fl, root_dir, raw, env, tr) ==
    IF env.canonicalize = "Err" \/ IsErr(root_dir)
    THEN Outcome(GenError("CanonicalizeFailed", [kind |-> "io"]), fl,
                 Append(tr, Step("canonicalize", FALSE)))
    ELSE GenValidated(fl, root_dir.val, raw, ConfigFromRaw(f, root_dir.val, raw),
                      env.write, Append(tr, Step("canonicalize", TRUE)))

GenCanonicalize(f, fl, cwd, raw, env, tr) ==
    GenCanonicalized(f, fl, Canonicalize(f, cwd), raw, env, tr)

\* Config::gen: env.raw is what Raw::prompt or Raw::detect, whichever is
\* called, comes back with.
gen(f, fl, cwd, non_interactive, env, tr) ==
    IF no(non_interactive)
    THEN IF IsErr(env.raw)
         THEN Outcome(GenError("PromptFailed", env.raw.err), fl,
                      Append(tr, Step("prompt", FALSE)))
         ELSE GenCanonicalize(f, fl, cwd, env.raw.val, env,
                              Append(tr, Step("prompt", TRUE)))
    ELSE IF IsErr(env.raw)
         THEN Outcome(GenError("DetectFailed", env.raw.err), fl,
                      Append(tr, Step("detect", FALSE)))
         ELSE GenCanonicalize(f, fl, cwd, env.raw.val, env,
                              Append(tr, Step("detect", TRUE)))

\* The first branch of load_or_gen: Config::from_raw on the loaded raw.
LoadedValidated(fl, root_dir, config, tr) ==
    IF IsErr(config)
    THEN Outcome(Err([kind |-> "FromRawFailed", path |-> root_dir,
                      cause |-> config.err]),
                 fl, Append(tr, Step("from_raw", FALSE)))
    ELSE Outcome(Ok([config |-> config.val, origin |-> "Loaded"]),
                 fl, Append(tr, Step("from_raw", TRUE)))

LoadedFromRaw(f, fl, root_dir, raw, tr) ==
    LoadedValidated(fl, root_dir, ConfigFromRaw(f, root_dir, raw), tr)

\* The second branch of load_or_gen: the result of Config::gen.
Generated(o) ==
    IF IsErr(o.ret)
    THEN Outcome(Err([kind |-> "GenFailed", cause |-> o.ret.err]), o.files, o.trace)
    ELSE Outcome(Ok([config |-> o.ret.val, origin |-> "FreshlyMinted"]),
                 o.files, o.trace)

\* load_or_gen that generates a config when the discovered one fails to load.
LoadOrGenFallsBack(f, fl, cwd, non_interactive, env, loaded) ==
    IF IsErr(loaded) \/ IsNone(loaded.val)
    THEN Generated(gen(f, fl, cwd, non_interactive, env,
                       <<Step("load", IsOk(loaded))>>))
    ELSE LoadedFromRaw(f, fl, Unwrap(loaded.val).root_dir, Unwrap(loaded.val).raw,
                       <<Step("load", TRUE)>>)

LoadOrGenOf(f, fl, cwd, non_interactive, env, loaded) ==
    IF IsErr(loaded)
    THEN Outcome(Err([kind |-> "LoadFailed", cause |-> loaded.err]), fl,
                 <<Step("load", FALSE)>>)
    ELSE IF IsSome(loaded.val)
    THEN LoadedFromRaw(f, fl, Unwrap(loaded.val).root_dir, Unwrap(loaded.val).raw,
                       <<Step("load", TRUE)>>)
    ELSE Generated(gen(f, fl, cwd, non_interactive, env, <<Step("load", TRUE)>>))

load_or_gen(f, fl, cwd, non_interactive, env) ==
    LoadOrGenOf(f, fl, cwd, non_interactive, env, load(f, fl, cwd))

(***************************************************************************)
(* Loading and generation: load_or_gen called again and again, from every  *)
(* directory of Cwds, on every arrangement of config files.                *)
(***************************************************************************)
\* /w/p is a project below /w, and /l a link to it.
ConfigFs ==
    [dirs |-> {<<>>, <<"w">>, <<"w", "p">>},
     links |-> [p \in {<<"l">>} |-> <<"w", "p">>]]

Cwds == {<<>>, <<"w">>, <<"w", "p">>, <<"l">>, <<"l", "..">>, <<"gone">>}

NonInteractives == {"Yes", "No"}

RawConfig(app, team, android) ==
    [app |-> app, apple |-> Some(AppleRaw(team, None, NoVersions)),
     android |-> android, env |-> None]

\* What Raw::prompt and Raw::detect build: no android section.
GeneratedRaws ==
    {RawConfig(app, team, None) : app \in {"valid", "invalid"}, team \in {<<"T">>}}
      \cup {RawConfig("valid", <<>>, None)}

\* What a config file may hold, an android project-dir of "/.." included.
DiskContents ==
    {Absent, Unreadable, Unparsable}
      \cup {Toml(RawConfig(app, <<"T">>, None)) : app \in {"valid", "invalid"}}
      \cup {Toml(RawConfig("valid", <<"T">>,
                           Some([project_dir |-> Some(AbsPath(<<"..">>))])))}

Envs ==
    [raw : {Err([kind |-> "AppFailed"])} \cup {Ok(r) : r \in GeneratedRaws},
     canonicalize : {"Ok", "Err"},
     write : {"Ok", "SerializeFailed", "WriteFailed", "WriteFailedPartway"}]

NoCall == [op |-> "none"]

\* An environment in which every step succeeds.
QuietEnv ==
    [raw |-> Ok(RawConfig("valid", <<"T">>, None)), canonicalize |-> "Ok",
     write |-> "Ok"]

\* The environment is asked only on the way through Config::gen, that is
\* when Raw::load found no config file.
EnvsAfter(loaded) ==
    IF IsOk(loaded) /\ IsNone(loaded.val) THEN Envs ELSE {QuietEnv}

LoadOrGen ==
    \E cwd \in Cwds, non_interactive \in NonInteractives :
        \E env \in EnvsAfter(load(fs, files, cwd)) :
            /\ call' = [op |-> "load_or_gen", cwd |-> cwd,
                        non_interactive |-> non_interactive]
            /\ LET o == load_or_gen(fs, files, cwd, non_interactive, env)
               IN /\ ret' = o.ret
                  /\ files' = o.files
                  /\ trace' = o.trace
            /\ UNCHANGED fs

InitConfig ==
    /\ fs = ConfigFs
    /\ files \in [ConfigFs.dirs -> DiskContents]
    /\ call = NoCall
    /\ ret = NoRet
    /\ trace = <<>>

NextConfig == LoadOrGen

SpecConfig == InitConfig /\ [][NextConfig]_vars

(***************************************************************************)
(* Discovery: Raw::discover_root from every directory of DiscoverCwds, on  *)
(* every arrangement of config files.                                      *)
(***************************************************************************)
\* /w/p is a project below /w, and /d/l a link to it from another directory.
DiscoverFs ==
    [dirs |-> {<<>>, <<"w">>, <<"w", "p">>, <<"d">>},
     links |-> [p \in {<<"d", "l">>} |-> <<"w", "p">>]]

DiscoverCwds ==
    {<<>>, <<"w">>, <<"w", "p">>, <<"d">>, <<"d", "l">>, <<"d", "l", "..">>,
     <<"gone">>}

\* The paths discover_root logs as looked at, from the canonical directory
\* `dir` upwards.
RECURSIVE LookedAt(_, _)
LookedAt(fl, dir) ==
    IF FileExists(fl, dir) \/ dir = <<>> THEN <<Append(dir, file_name)>>
    ELSE <<Append(dir, file_name)>> \o LookedAt(fl, ParentOf(dir))

DiscoverLog(fl, canonical) ==
    IF IsErr(canonical) THEN <<>> ELSE LookedAt(fl, canonical.val)

DiscoverRoot ==
    /\ call.op = "discover_root"
    /\ Pending
    /\ ret' = discover_root(fs, files, call.cwd)
    /\ trace' = DiscoverLog(files, Canonicalize(fs, call.cwd))
    /\ UNCHANGED <<fs, files, call>>

InitDiscover ==
    /\ fs = DiscoverFs
    /\ files \in [DiscoverFs.dirs -> {Absent, Unreadable, Toml(QuietEnv.raw.val)}]
    /\ call \in {[op |-> "discover_root", cwd |-> cwd] : cwd \in DiscoverCwds}
    /\ ret = NoRet
    /\ trace = <<>>

NextDiscover == DiscoverRoot

SpecDiscover == InitDiscover /\ [][NextDiscover]_vars

(***************************************************************************)
(* apple::project::gen, one action per statement that can fail.  The       *)
(* position in gen is the length of `trace`; a failed statement returns    *)
(* its error at once.                                                      *)
(***************************************************************************)
MaxAssetCatalogs == 2

PodLists == {<<>>, <<"Pod">>}

\* pod install with the iOS pod list alone deciding.
PodInstallNeededIosOnly(ios_pods, macos_pods) == ios_pods # <<>>

\* The condition of the last statement of gen.
PodInstallNeeded(ios_pods, macos_pods) == ios_pods # <<>> \/ macos_pods # <<>>

\* The statements gen goes through on the metadata of the call.
AppleGenSteps(c) ==
    <<"rustup", "rust_version_check", "deps_install", "lookup_pack",
      "process_templates", "symlink_asset_dir">>
      \o [i \in 1..c.asset_catalogs |-> "create_asset_catalog_dir"]
      \o <<"xcodegen">>
      \o (IF PodInstallNeeded(c.ios_pods, c.macos_pods) THEN <<"pod_install">> ELSE <<>>)

AppleGenAt(name) ==
    /\ call.op = "apple_gen"
    /\ Pending
    /\ Len(trace) < Len(AppleGenSteps(call))
    /\ AppleGenSteps(call)[Len(trace) + 1] = name

\* `?` on the result of a statement, and Ok(()) after the last one.
AppleGenAfter(name, error) ==
    \E ok \in BOOLEAN :
        /\ trace' = Append(trace, Step(name, ok))
        /\ ret' = IF ~ok THEN Err([kind |-> error])
                  ELSE IF Len(trace) + 1 = Len(AppleGenSteps(call)) THEN Ok(<<>>)
                  ELSE NoRet
        /\ UNCHANGED <<fs, files, call>>

AppleGenRustup ==
    AppleGenAt("rustup") /\ AppleGenAfter("rustup", "RustupFailed")

AppleGenRustVersionCheck ==
    /\ AppleGenAt("rust_version_check")
    /\ AppleGenAfter("rust_version_check", "RustVersionCheckFailed")

AppleGenDepsInstall ==
    AppleGenAt("deps_install") /\ AppleGenAfter("deps_install", "DepsInstallFailed")

AppleGenLookupPack ==
    AppleGenAt("lookup_pack") /\ AppleGenAfter("lookup_pack", "MissingPack")

AppleGenProcessTemplates ==
    /\ AppleGenAt("process_templates")
    /\ AppleGenAfter("process_templates", "TemplateProcessingFailed")

AppleGenSymlinkAssetDir ==
    /\ AppleGenAt("symlink_asset_dir")
    /\ AppleGenAfter("symlink_asset_dir", "AssetDirSymlinkFailed")

AppleGenCreateAssetCatalogDir ==
    /\ AppleGenAt("create_asset_catalog_dir")
    /\ AppleGenAfter("create_asset_catalog_dir", "DirectoryCreationFailed")

AppleGenXcodegen ==
    AppleGenAt("xcodegen") /\ AppleGenAfter("xcodegen", "XcodegenFailed")

AppleGenPodInstall ==
    AppleGenAt("pod_install") /\ AppleGenAfter("pod_install", "PodInstallFailed")

AppleGenCalls(n) ==
    {[op |-> "apple_gen", asset_catalogs |-> k, ios_pods |-> i, macos_pods |-> m]
        : k \in 0..n, i \in PodLists, m \in PodLists}

InitAppleGen ==
    /\ call \in AppleGenCalls(MaxAssetCatalogs)
    /\ fs = PlainFs
    /\ files = NoFiles
    /\ ret = NoRet
    /\ trace = <<>>

NextAppleGen ==
    \/ AppleGenRustup
    \/ AppleGenRustVersionCheck
    \/ AppleGenDepsInstall
    \/ AppleGenLookupPack
    \/ AppleGenProcessTemplates
    \/ AppleGenSymlinkAssetDir
    \/ AppleGenCreateAssetCatalogDir
    \/ AppleGenXcodegen
    \/ AppleGenPodInstall

SpecAppleGen == InitAppleGen /\ [][NextAppleGen]_vars

(***************************************************************************)
(* android::device::Device::run, one action per command it runs.  The      *)
(* position in run is the length of `trace`; a failed command returns its  *)
(* RunError at once.                                                       *)
(***************************************************************************)
NoiseLevels == {"Polite", "LoudAndProud", "FranklyQuitePedantic"}

FilterLevels == {"Warn", "Info", "Verbose"}

Ran(name, arg, ok) == [step |-> name, ok |-> ok, arg |-> arg]

RunError(kind, cause) == Err([kind |-> kind, cause |-> cause])

\* The flag build_apk gives to Gradle.
GradleNoiseFlag(noise_level) ==
    CASE noise_level = "Polite" -> "--warn"
      [] noise_level = "LoudAndProud" -> "--info"
      [] noise_level = "FranklyQuitePedantic" -> "--debug"

\* The level logcat filters at: filter_level, or the one of the noise level.
LogcatLevel(filter_level, noise_level) ==
    UnwrapOr(filter_level,
             CASE noise_level = "Polite" -> "Warn"
               [] noise_level = "LoudAndProud" -> "Info"
               [] noise_level = "FranklyQuitePedantic" -> "Verbose")

RunStep(name, arg, error, cause) ==
    [step |-> name, arg |-> arg, error |-> error, cause |-> cause]

RunTail(c) ==
    <<RunStep("start_activity", "", "StartFailed", "bossy"),
      RunStep("wake_screen", "", "WakeScreenFailed", "bossy"),
      RunStep("logcat", LogcatLevel(c.filter_level, c.noise_level),
              "LogcatFailed", "bossy")>>

BundleSteps ==
    <<RunStep("install_bundletool", "", "BundletoolInstallFailed", "InstallFailed"),
      RunStep("clean_apks", "", "ApksFromAabBuildError", "CleanFailed"),
      RunStep("build_aab", "", "AabBuildError", "BuildFailed"),
      RunStep("build_apks_from_aab", "", "ApksFromAabBuildError", "BuildFromAabFailed"),
      RunStep("install_apk_from_aab", "", "ApkInstallFailed", "InstallFromAabFailed")>>

ApkSteps(c) ==
    <<RunStep("remove_broken_links", "", "ApkBuildFailed", "LibSymlinkCleaningFailed"),
      RunStep("assemble", GradleNoiseFlag(c.noise_level), "ApkBuildFailed",
              "AssembleFailed"),
      RunStep("install_apk", "", "ApkInstallFailed", "InstallFailed")>>

\* run with the app started before it is built and installed.
DeviceRunStepsStartFirst(c) ==
    <<RunTail(c)[1]>>
      \o (IF c.build_app_bundle THEN BundleSteps ELSE ApkSteps(c))
      \o Tail(RunTail(c))

\* The commands of run in the order of the code.
DeviceRunSteps(c) ==
    (IF c.build_app_bundle THEN BundleSteps ELSE ApkSteps(c)) \o RunTail(c)

DeviceRunAt(name) ==
    /\ call.op = "device_run"
    /\ Pending
    /\ Len(trace) < Len(DeviceRunSteps(call))
    /\ DeviceRunSteps(call)[Len(trace) + 1].step = name

\* `?` on the result of the command, and Ok(()) after the last one.
DeviceRunAfter(s) ==
    \E ok \in BOOLEAN :
        /\ trace' = Append(trace, Ran(s.step, s.arg, ok))
        /\ ret' = IF ~ok THEN RunError(s.error, s.cause)
                  ELSE IF Len(trace) + 1 = Len(DeviceRunSteps(call)) THEN Ok(<<>>)
                  ELSE NoRet
        /\ UNCHANGED <<fs, files, call>>

DeviceRunDo(name) ==
    DeviceRunAt(name) /\ DeviceRunAfter(DeviceRunSteps(call)[Len(trace) + 1])

RunInstallBundletool == DeviceRunDo("install_bundletool")
RunCleanApks == DeviceRunDo("clean_apks")
RunBuildAab == DeviceRunDo("build_aab")
RunBuildApksFromAab == DeviceRunDo("build_apks_from_aab")
RunInstallApkFromAab == DeviceRunDo("install_apk_from_aab")
RunRemoveBrokenLinks == DeviceRunDo("remove_broken_links")
RunAssemble == DeviceRunDo("assemble")
RunInstallApk == DeviceRunDo("install_apk")
RunStartActivity == DeviceRunDo("start_activity")
RunWakeScreen == DeviceRunDo("wake_screen")
RunLogcat == DeviceRunDo("logcat")

InitDeviceRun ==
    /\ call \in [op : {"device_run"}, build_app_bundle : BOOLEAN,
                 noise_level : NoiseLevels, filter_level : OptionOf(FilterLevels)]
    /\ fs = PlainFs
    /\ files = NoFiles
    /\ ret = NoRet
    /\ trace = <<>>

NextDeviceRun ==
    \/ RunInstallBundletool
    \/ RunCleanApks
    \/ RunBuildAab
    \/ RunBuildApksFromAab
    \/ RunInstallApkFromAab
    \/ RunRemoveBrokenLinks
    \/ RunAssemble
    \/ RunInstallApk
    \/ RunStartActivity
    \/ RunWakeScreen
    \/ RunLogcat

SpecDeviceRun == InitDeviceRun /\ [][NextDeviceRun]_vars

(***************************************************************************)
(* util::pipe, one action per command or write.  `trace` holds what was    *)
(* run so far: the stdout of the sending command, and the bytes that       *)
(* reached the stdin of the receiving command.                             *)
(***************************************************************************)
MaxStdoutLen == 3

StdoutBytes == {"a", "b"}

\* The last three statements of pipe with the wait error looked at first.
PipeResultWaitFirst(pipe_ok, wait_ok) ==
    IF ~wait_ok THEN Err([kind |-> "WaitFailed"])
    ELSE IF ~pipe_ok THEN Err([kind |-> "PipeFailed"])
    ELSE Ok(TRUE)

\* pipe_result?; wait_result?; Ok(true)
PipeResult(pipe_ok, wait_ok) ==
    IF ~pipe_ok THEN Err([kind |-> "PipeFailed"])
    ELSE IF ~wait_ok THEN Err([kind |-> "WaitFailed"])
    ELSE Ok(TRUE)

PipeAt(n) == call.op = "pipe" /\ Pending /\ Len(trace) = n

\* tx_command.run_and_wait_for_output() and the test for empty stdout.
PipeRunTx ==
    /\ PipeAt(0)
    /\ \/ /\ trace' = <<Ran("tx", <<>>, FALSE)>>
          /\ ret' = Err([kind |-> "TxCommandFailed"])
       \/ \E stdout \in SeqsUpTo(StdoutBytes, MaxStdoutLen) :
              /\ trace' = <<Ran("tx", stdout, TRUE)>>
              /\ ret' = IF stdout = <<>> THEN Ok(FALSE) ELSE NoRet
    /\ UNCHANGED <<fs, files, call>>

\* rx_command.with_stdin_piped().run()
PipeRunRx ==
    /\ PipeAt(1)
    /\ \E ok \in BOOLEAN :
           /\ trace' = Append(trace, Ran("rx", <<>>, ok))
           /\ ret' = IF ok THEN NoRet ELSE Err([kind |-> "RxCommandFailed"])
    /\ UNCHANGED <<fs, files, call>>

\* write_all: every byte, or an error after only some of them.
PipeWrite ==
    /\ PipeAt(2)
    /\ \E n \in 0..Len(trace[1].arg) :
           trace' = Append(trace, Ran("write", SubSeq(trace[1].arg, 1, n),
                                      n = Len(trace[1].arg)))
    /\ UNCHANGED <<fs, files, call, ret>>

\* rx_command.wait_for_output() and the return.
PipeWait ==
    /\ PipeAt(3)
    /\ \E ok \in BOOLEAN :
           /\ trace' = Append(trace, Ran("wait", <<>>, ok))
           /\ ret' = PipeResult(trace[3].ok, ok)
    /\ UNCHANGED <<fs, files, call>>

InitPipe ==
    /\ call = [op |-> "pipe"]
    /\ fs = PlainFs
    /\ files = NoFiles
    /\ ret = NoRet
    /\ trace = <<>>

NextPipe == PipeRunTx \/ PipeRunRx \/ PipeWrite \/ PipeWait

SpecPipe == InitPipe /\ [][NextPipe]_vars

(***************************************************************************)
(* util::with_working_dir, one action per statement.  The current          *)
(* directory of the process is fs.cwd.                                     *)
(***************************************************************************)
WorkingDirs == {<<>>, <<"r">>, <<"o">>}

\* The working_dir argument: relative or absolute, existing or not.
WorkingDirArgs ==
    {AbsPath(<<>>), AbsPath(<<"r">>), AbsPath(<<"o">>), AbsPath(<<"gone">>),
     RelPath(<<"r">>), RelPath(<<"..">>), RelPath(<<"..", "o">>), RelPath(<<"gone">>)}

\* std::env::set_current_dir: the path is resolved from the current
\* directory unless it is absolute.
SetCurrentDir(f, path) ==
    IF path.abs THEN Walk(f, <<>>, path.comps) ELSE Walk(f, f.cwd, path.comps)

WithWorkingDirAt(n) == call.op = "with_working_dir" /\ Pending /\ Len(trace) = n

\* std::env::current_dir()
WwdCurrentDir ==
    /\ WithWorkingDirAt(0)
    /\ \E ok \in BOOLEAN :
           /\ trace' = <<Ran("current_dir", IF ok THEN fs.cwd ELSE <<>>, ok)>>
           /\ ret' = IF ok THEN NoRet ELSE Err([kind |-> "CurrentDirGetFailed"])
    /\ UNCHANGED <<fs, files, call>>

\* std::env::set_current_dir(working_dir)
WwdEnter ==
    /\ WithWorkingDirAt(1)
    /\ LET dir == SetCurrentDir(fs, call.working_dir)
       IN IF IsOk(dir)
          THEN /\ fs' = [fs EXCEPT !.cwd = dir.val]
               /\ trace' = Append(trace, Ran("set_current_dir", dir.val, TRUE))
               /\ ret' = NoRet
          ELSE /\ fs' = fs
               /\ trace' = Append(trace, Ran("set_current_dir", <<>>, FALSE))
               /\ ret' = Err([kind |-> "CurrentDirSetFailed",
                              path |-> call.working_dir])
    /\ UNCHANGED <<files, call>>

\* f().map_err(E::from)?
WwdCallback ==
    /\ WithWorkingDirAt(2)
    /\ \E ok \in BOOLEAN :
           /\ trace' = Append(trace, Ran("callback", fs.cwd, ok))
           /\ ret' = IF ok THEN NoRet ELSE Err([kind |-> "CallbackFailed"])
    /\ UNCHANGED <<fs, files, call>>

\* std::env::set_current_dir(&current_dir) and Ok(result)
WwdLeave ==
    /\ WithWorkingDirAt(3)
    /\ \E ok \in BOOLEAN :
           /\ fs' = IF ok THEN [fs EXCEPT !.cwd = trace[1].arg] ELSE fs
           /\ trace' = Append(trace, Ran("set_current_dir", trace[1].arg, ok))
           /\ ret' = IF ok THEN Ok("result")
                     ELSE Err([kind |-> "CurrentDirSetFailed",
                               path |-> AbsPath(trace[1].arg)])
    /\ UNCHANGED <<files, call>>

InitWorkingDir ==
    /\ call \in [op : {"with_working_dir"}, working_dir : WorkingDirArgs,
                 cwd_before : WorkingDirs]
    /\ fs = [dirs |-> PlainFs.dirs, links |-> PlainFs.links, cwd |-> call.cwd_before]
    /\ files = NoFiles
    /\ ret = NoRet
    /\ trace = <<>>

NextWorkingDir == WwdCurrentDir \/ WwdEnter \/ WwdCallback \/ WwdLeave

SpecWorkingDir == InitWorkingDir /\ [][NextWorkingDir]_vars

(***************************************************************************)
(* util::prompt::yes_no                                                    *)
(***************************************************************************)
\* What the user may type, trimmed: a yes, a no, nothing, or something else.
Responses == {"y", "Y", "n", "N", "", "yes"}

\* yes_no on the trimmed response; eq_ignore_ascii_case("y") and ("n").
yes_no(response, default) ==
    IF response \in {"y", "Y"} THEN Some("Yes")
    ELSE IF response \in {"n", "N"} THEN Some("No")
    ELSE IF response = "" THEN default
    ELSE None

(***************************************************************************)
(* project::gen, one action per statement that can fail.  `files` gives    *)
(* for each file name under the project root whether the file exists and   *)
(* which pack of the chain wrote it last (0: none).  A pack is the set of  *)
(* the files it emits.                                                     *)
(***************************************************************************)
MaxPacks == 2

FileNames == {"a", "b"}

Packs == SUBSET FileNames \ {{}}

PackChains(n) == UNION {[1..k -> Packs] : k \in 1..n}

\* The files of the pack that exist, looked up as gen does: by their path
\* relative to the pack, that is from the current directory of the process.
ToOverwrite(c, fl, pack) ==
    IF c.in_root THEN {f \in pack : fl[f].exists}
    ELSE pack \cap c.cwd_files

Processed(tr) == Cardinality({i \in DOMAIN tr : tr[i].step = "process"})

ProjectGenInLoop ==
    /\ call.op = "project_gen"
    /\ Pending
    /\ Len(trace) >= 2
    /\ Processed(trace) < Len(call.pack_chain)

CurrentPack == call.pack_chain[Processed(trace) + 1]

NeedsPrompt ==
    call.dot_first_init_exists /\ ToOverwrite(call, files, CurrentPack) # {}

\* git.init()
ProjectGenGitInit ==
    /\ call.op = "project_gen" /\ Pending /\ Len(trace) = 0
    /\ \E ok \in BOOLEAN :
           /\ trace' = <<Ran("git_init", <<>>, ok)>>
           /\ ret' = IF ok THEN NoRet ELSE Err([kind |-> "GitInitFailed"])
    /\ UNCHANGED <<fs, files, call>>

\* template_pack().resolve(..)
ProjectGenResolve ==
    /\ call.op = "project_gen" /\ Pending /\ Len(trace) = 1
    /\ \E ok \in BOOLEAN :
           /\ trace' = Append(trace, Ran("resolve", <<>>, ok))
           /\ ret' = IF ok THEN NoRet ELSE Err([kind |-> "TemplatePackResolveFailed"])
    /\ UNCHANGED <<fs, files, call>>

\* What gen makes of the result of prompt::yes_no.
AfterAnswer(answer) ==
    IF IsErr(answer) THEN Err([kind |-> "PromptFailed"])
    ELSE IF UnwrapOr(answer.val, "No") = "No"
    THEN Err([kind |-> "OverwriteFilePermissionDenied"])
    ELSE NoRet

\* prompt::yes_no(.., Some(Yes)) for the pack about to be processed.
ProjectGenPrompt ==
    /\ ProjectGenInLoop
    /\ NeedsPrompt
    /\ trace[Len(trace)].step # "prompt"
    /\ \/ /\ trace' = Append(trace, Ran("prompt", "", FALSE))
          /\ ret' = AfterAnswer(Err("io"))
       \/ \E response \in Responses :
              /\ trace' = Append(trace, Ran("prompt", response, TRUE))
              /\ ret' = AfterAnswer(Ok(yes_no(response, Some("Yes"))))
    /\ UNCHANGED <<fs, files, call>>

\* bike.filter_and_process(&pack, &root, ..): every file of the pack is
\* written, or on an error some of them.
ProjectGenProcess ==
    /\ ProjectGenInLoop
    /\ NeedsPrompt => trace[Len(trace)].step = "prompt"
    /\ \E written \in SUBSET CurrentPack :
           /\ files' = [f \in FileNames |->
                          IF f \in written
                          THEN [exists |-> TRUE, by |-> Processed(trace) + 1]
                          ELSE files[f]]
           /\ trace' = Append(trace,
                              Ran("process",
                                  {f \in written : files[f].exists},
                                  written = CurrentPack))
           /\ ret' = IF written # CurrentPack THEN Err([kind |-> "ProcessingFailed"])
                     ELSE IF Processed(trace) + 1 = Len(call.pack_chain) THEN Ok(<<>>)
                     ELSE NoRet
    /\ UNCHANGED <<fs, call>>

ProjectGenCalls(n) ==
    {[op |-> "project_gen", pack_chain |-> chain, dot_first_init_exists |-> d,
      existing |-> existing, in_root |-> in_root, cwd_files |-> cwd_files]
        : chain \in PackChains(n), d \in BOOLEAN, existing \in SUBSET FileNames,
          in_root \in BOOLEAN, cwd_files \in SUBSET FileNames}

InitProjectGen ==
    /\ call \in ProjectGenCalls(MaxPacks)
    /\ call.in_root => call.cwd_files = call.existing
    /\ fs = PlainFs
    /\ files = [f \in FileNames |-> [exists |-> f \in call.existing, by |-> 0]]
    /\ ret = NoRet
    /\ trace = <<>>

NextProjectGen ==
    \/ ProjectGenGitInit
    \/ ProjectGenResolve
    \/ ProjectGenPrompt
    \/ ProjectGenProcess

SpecProjectGen == InitProjectGen /\ [][NextProjectGen]_vars

(***************************************************************************)
(* apple::cli: Exec::exec for the commands open, build, archive and run,   *)
(* one action per call that can fail.                                      *)
(***************************************************************************)
MaxTargets == 2

CliCommands == {"open", "build", "archive", "run"}

\* What runs before the command's own work, in the order of the code:
\* open checks the Rust version before with_config, the others inside it.
CliPrefix(command) ==
    IF command = "open"
    THEN <<"env_init", "version_check", "load_or_gen", "metadata_load", "ensure_init">>
    ELSE <<"env_init", "load_or_gen", "metadata_load", "version_check", "ensure_init">>

\* The calls made for each target by the closure handed to
\* call_for_targets_with_fallback.
PerTarget(command) ==
    IF command = "archive" THEN <<"build", "archive">> ELSE <<"build">>

RECURSIVE ForTargets(_, _, _)
ForTargets(command, from, to) ==
    IF from > to THEN <<>>
    ELSE [i \in DOMAIN PerTarget(command) |->
             [step |-> PerTarget(command)[i], target |-> from]]
         \o ForTargets(command, from + 1, to)

Plain(names) == [i \in DOMAIN names |-> [step |-> names[i], target |-> 0]]

CliSteps(c) ==
    Plain(CliPrefix(c.command))
    \o (IF c.command = "open" THEN Plain(<<"open_in_xcode">>)
        ELSE IF c.command = "run" THEN Plain(<<"device_prompt", "run">>)
        ELSE Plain(<<"get_targets">>) \o ForTargets(c.command, 1, c.targets))

CliAt(name) ==
    /\ call.op = "apple_exec"
    /\ Pending
    /\ Len(trace) < Len(CliSteps(call))
    /\ CliSteps(call)[Len(trace) + 1].step = name

CliTarget == CliSteps(call)[Len(trace) + 1].target

CliAfter(ok, error) ==
    IF ~ok THEN Err([kind |-> error])
    ELSE IF Len(trace) + 1 = Len(CliSteps(call)) THEN Ok(<<>>)
    ELSE NoRet

\* A call of the command that succeeds or fails with the error given.
CliDo(name, error) ==
    /\ CliAt(name)
    /\ \E ok \in BOOLEAN :
           /\ trace' = Append(trace, Ran(name, CliTarget, ok))
           /\ ret' = CliAfter(ok, error)
    /\ UNCHANGED <<fs, files, call>>

\* ensure_init with the project directory never looked at.
ensure_init_unchecked(project_dir_exists) == Ok(<<>>)

ensure_init(project_dir_exists) ==
    IF ~project_dir_exists THEN Err([kind |-> "ProjectDirAbsent"]) ELSE Ok(<<>>)

\* Env::new()
CliEnvInit == CliDo("env_init", "EnvInitFailed")

\* rust_version_check(wrapper)
CliVersionCheck == CliDo("version_check", "RustVersionCheckFailed")

\* OmniConfig::load_or_gen(".", ..)
CliLoadOrGen == CliDo("load_or_gen", "ConfigFailed")

\* OmniMetadata::load(..), then metadata.apple().supported()
CliMetadataLoad ==
    /\ CliAt("metadata_load")
    /\ \/ /\ trace' = Append(trace, Ran("metadata_load", "failed", FALSE))
          /\ ret' = Err([kind |-> "MetadataFailed"])
       \/ \E supported \in BOOLEAN :
              /\ trace' = Append(trace, Ran("metadata_load",
                                            IF supported THEN "supported"
                                            ELSE "unsupported", TRUE))
              /\ ret' = IF supported THEN NoRet ELSE Err([kind |-> "Unsupported"])
    /\ UNCHANGED <<fs, files, call>>

\* ensure_init(config)?
CliEnsureInit ==
    /\ CliAt("ensure_init")
    /\ trace' = Append(trace, Ran("ensure_init", 0,
                                  IsOk(ensure_init(call.project_dir_exists))))
    /\ ret' = IF IsOk(ensure_init(call.project_dir_exists)) THEN NoRet
              ELSE ensure_init(call.project_dir_exists)
    /\ UNCHANGED <<fs, files, call>>

\* os::open_in_xcode(config.project_dir())
CliOpenInXcode == CliDo("open_in_xcode", "OpenFailed")

\* device_prompt(&env)
CliDevicePrompt == CliDo("device_prompt", "DevicePromptFailed")

\* device.run(..)
CliRun == CliDo("run", "RunFailed")

\* call_for_targets_with_fallback: the targets named are looked up first.
CliGetTargets ==
    /\ CliAt("get_targets")
    /\ trace' = Append(trace, Ran("get_targets", 0, call.targets_valid))
    /\ ret' = CliAfter(call.targets_valid, "TargetInvalid")
    /\ UNCHANGED <<fs, files, call>>

\* target.build(..)
CliBuild == CliDo("build", "BuildFailed")

\* target.archive(..)
CliArchive == CliDo("archive", "ArchiveFailed")

CliCalls(n) ==
    {[op |-> "apple_exec", command |-> command, targets |-> targets,
      targets_valid |-> valid, project_dir_exists |-> exists]
        : command \in CliCommands, targets \in 1..n, valid \in BOOLEAN,
          exists \in BOOLEAN}

InitAppleCli ==
    /\ call \in CliCalls(MaxTargets)
    /\ fs = PlainFs
    /\ files = NoFiles
    /\ ret = NoRet
    /\ trace = <<>>

NextAppleCli ==
    \/ CliEnvInit
    \/ CliVersionCheck
    \/ CliLoadOrGen
    \/ CliMetadataLoad
    \/ CliEnsureInit
    \/ CliOpenInXcode
    \/ CliDevicePrompt
    \/ CliRun
    \/ CliGetTargets
    \/ CliBuild
    \/ CliArchive

SpecAppleCli == InitAppleCli /\ [][NextAppleCli]_vars

(***************************************************************************)
(* apple::deps::install_all, one action per call that can fail.  `files`   *)
(* gives for each package whether it is missing, outdated or current.      *)
(***************************************************************************)
MaxPrompts == 2

PACKAGES == <<"xcodegen", "ios-deploy", "cocoapods">>

PackageNames == {PACKAGES[i] : i \in DOMAIN PACKAGES}

PackageStates == {"missing", "outdated", "current"}

Last == trace[Len(trace)]

StepsNamed(tr, name) == {i \in DOMAIN tr : tr[i].step = name}

DepsPending == call.op = "install_all" /\ Pending

\* install: !package.found()? || reinstall_deps.yes()
NeedsInstall(c, state) == state = "missing" \/ c.reinstall_deps

\* The loop over PACKAGES is at a package whose presence is to be looked up.
DepsAtFound ==
    /\ DepsPending
    /\ Cardinality(StepsNamed(trace, "found")) < Len(PACKAGES)
    /\ IF trace = <<>> THEN TRUE
       ELSE \/ Last.step = "install"
            \/ Last.step = "found" /\ ~NeedsInstall(call, files[Last.arg])

NextPackage == PACKAGES[Cardinality(StepsNamed(trace, "found")) + 1]

\* package.found()
DepsFound ==
    /\ DepsAtFound
    /\ \E ok \in BOOLEAN :
           /\ trace' = Append(trace, Ran("found", NextPackage, ok))
           /\ ret' = IF ok THEN NoRet ELSE Err([kind |-> "PresenceCheckFailed"])
    /\ UNCHANGED <<fs, files, call>>

\* brew_reinstall or update_package in install: the package is installed, or
\* brought up to date if it was there.
DepsInstall ==
    /\ DepsPending
    /\ trace # <<>>
    /\ Last.step = "found"
    /\ NeedsInstall(call, files[Last.arg])
    /\ \E ok \in BOOLEAN :
           /\ trace' = Append(trace, Ran("install", Last.arg, ok))
           /\ files' = IF ok THEN [files EXCEPT ![Last.arg] = "current"] ELSE files
           /\ ret' = IF ok THEN NoRet ELSE Err([kind |-> "InstallFailed"])
    /\ UNCHANGED <<fs, call>>

\* Outdated::load
DepsOutdatedLoad ==
    /\ DepsPending
    /\ Cardinality(StepsNamed(trace, "found")) = Len(PACKAGES)
    /\ \/ Last.step = "install"
       \/ Last.step = "found" /\ ~NeedsInstall(call, files[Last.arg])
    /\ \E ok \in BOOLEAN :
           /\ trace' = Append(trace,
                              Ran("outdated",
                                  {p \in PackageNames : files[p] = "outdated"}, ok))
           /\ ret' = IF ok THEN NoRet ELSE Err([kind |-> "OutdatedFailed"])
    /\ UNCHANGED <<fs, files, call>>

\* The outdated packages as Outdated::load found them.
Outdated(tr) ==
    UNION {tr[i].arg : i \in StepsNamed(tr, "outdated")}

\* The prompt is shown whatever the mode of the run.
ShouldPromptAlways(c, outdated) == outdated # {}

\* !outdated.is_empty() && non_interactive.no()
ShouldPrompt(c, outdated) == outdated # {} /\ ~c.non_interactive

\* The answer the loop around prompt::yes_no left with, if it did.
Answered(tr) ==
    IF tr # <<>> /\ tr[Len(tr)].step = "prompt" /\ tr[Len(tr)].ok
    THEN yes_no(tr[Len(tr)].arg, Some("Yes"))
    ELSE None

\* prompt::yes_no(..)? in the loop: shown after the outdated check and again
\* after every answer that is neither a yes nor a no.
DepsPrompt ==
    /\ DepsPending
    /\ trace # <<>>
    /\ \/ Last.step = "outdated" /\ ShouldPrompt(call, Outdated(trace))
       \/ Last.step = "prompt" /\ IsNone(Answered(trace))
    /\ \/ /\ trace' = Append(trace, Ran("prompt", "", FALSE))
          /\ ret' = Err([kind |-> "PromptFailed"])
       \/ \E response \in Responses :
              /\ \/ IsSome(yes_no(response, Some("Yes")))
                 \/ Cardinality(StepsNamed(trace, "prompt")) + 1 < MaxPrompts
              /\ trace' = Append(trace, Ran("prompt", response, TRUE))
              /\ ret' = NoRet
    /\ UNCHANGED <<fs, files, call>>

\* The outdated packages not yet updated, in the order of PACKAGES.
ToUpdate(tr) ==
    {i \in DOMAIN PACKAGES :
        /\ PACKAGES[i] \in Outdated(tr)
        /\ \A j \in StepsNamed(tr, "update") : tr[j].arg # PACKAGES[i]}

Min(S) == CHOOSE i \in S : \A j \in S : i <= j

\* update_package(package, ..) for the outdated packages after a yes.
DepsUpdate ==
    /\ DepsPending
    /\ trace # <<>>
    /\ \/ Last.step = "prompt" /\ Answered(trace) = Some("Yes")
       \/ Last.step = "update"
    /\ ToUpdate(trace) # {}
    /\ \E ok \in BOOLEAN :
           /\ trace' = Append(trace, Ran("update", PACKAGES[Min(ToUpdate(trace))], ok))
           /\ files' = IF ok
                       THEN [files EXCEPT ![PACKAGES[Min(ToUpdate(trace))]] = "current"]
                       ELSE files
           /\ ret' = IF ok THEN NoRet ELSE Err([kind |-> "InstallFailed"])
    /\ UNCHANGED <<fs, call>>

\* The packages are dealt with: nothing to ask, a no, or all updates done.
DepsPackagesDone ==
    /\ DepsPending
    /\ trace # <<>>
    /\ \/ Last.step = "outdated" /\ ~ShouldPrompt(call, Outdated(trace))
       \/ Last.step = "prompt" /\ Answered(trace) = Some("No")
       \/ /\ Last.step = "prompt" /\ Answered(trace) = Some("Yes")
          /\ ToUpdate(trace) = {}
       \/ Last.step = "update" /\ ToUpdate(trace) = {}

\* if skip_dev_tools.no() { DeveloperTools::new()? .. } Ok(())
DepsDeveloperTools ==
    /\ DepsPackagesDone
    /\ IF call.skip_dev_tools
       THEN /\ ret' = Ok(<<>>)
            /\ UNCHANGED trace
       ELSE \E ok \in BOOLEAN :
                /\ trace' = Append(trace, Ran("developer_tools", <<>>, ok))
                /\ ret' = IF ok THEN NoRet ELSE Err([kind |-> "VersionLookupFailed"])
    /\ UNCHANGED <<fs, files, call>>

\* install_all with a failed plugin installation passed on.
AfterPluginStrict(ok) ==
    IF ok THEN Ok(<<>>) ELSE Err([kind |-> "XcodePluginFailed"])

\* if let Err(err) = result { Report::action_request(..).print(wrapper) }
\* Ok(())
AfterPlugin(ok) == Ok(<<>>)

\* xcode_plugin::install(..)
DepsXcodePlugin ==
    /\ DepsPending
    /\ trace # <<>>
    /\ Last.step = "developer_tools"
    /\ \E ok \in BOOLEAN :
           /\ trace' = Append(trace, Ran("xcode_plugin", <<>>, ok))
           /\ ret' = AfterPlugin(ok)
    /\ UNCHANGED <<fs, files, call>>

InstallAllCalls ==
    {[op |-> "install_all", non_interactive |-> n, skip_dev_tools |-> s,
      reinstall_deps |-> r, packages |-> packages]
        : n \in BOOLEAN, s \in BOOLEAN, r \in BOOLEAN,
          packages \in [PackageNames -> PackageStates]}

InitDeps ==
    /\ call \in InstallAllCalls
    /\ fs = PlainFs
    /\ files = call.packages
    /\ ret = NoRet
    /\ trace = <<>>

NextDeps ==
    \/ DepsFound
    \/ DepsInstall
    \/ DepsOutdatedLoad
    \/ DepsPrompt
    \/ DepsUpdate
    \/ DepsDeveloperTools
    \/ DepsXcodePlugin

SpecDeps == InitDeps /\ [][NextDeps]_vars

(***************************************************************************)
(* apple::deps::GemCache.  `files` holds the set of the cache and the gems *)
(* installed on the machine; `trace` the commands that were run.           *)
(***************************************************************************)
MaxGemCommands == 4

GemNames == {"cocoapods", "xcodeproj"}

\* initialize: `gem list` runs when the set is empty; every name it lists
\* becomes the set.  The value is the cache set afterwards, or the error.
initialize(set, installed, listed) ==
    IF set = {}
    THEN IF listed THEN Ok(installed) ELSE Err([kind |-> "GemListFailed"])
    ELSE Ok(set)

\* The commands initialize runs.
InitializeRuns(set, installed, listed) ==
    IF set = {} THEN <<Ran("gem list", installed, listed)>> ELSE <<>>

GemRoom(n) == call.op \in {"new", "contains", "reinstall"} /\ Len(trace) + n <= MaxGemCommands

\* GemCache::contains(package)
GemContains ==
    /\ GemRoom(1)
    /\ \E package \in GemNames, listed \in BOOLEAN :
           LET set == initialize(files.set, files.installed, listed) IN
           /\ call' = [op |-> "contains", package |-> package]
           /\ trace' = trace \o InitializeRuns(files.set, files.installed, listed)
           /\ files' = IF IsOk(set) THEN [files EXCEPT !.set = set.val] ELSE files
           /\ ret' = IF IsOk(set) THEN Ok(package \in set.val) ELSE set
    /\ UNCHANGED fs

\* GemCache::reinstall(package): `gem update` for a gem of the set, `sudo gem
\* install` otherwise.
GemReinstall ==
    /\ GemRoom(2)
    /\ \E package \in GemNames, listed \in BOOLEAN, ok \in BOOLEAN :
           LET set == initialize(files.set, files.installed, listed) IN
           /\ call' = [op |-> "reinstall", package |-> package]
           /\ IF IsErr(set)
              THEN /\ trace' = trace \o InitializeRuns(files.set, files.installed, listed)
                   /\ files' = files
                   /\ ret' = set
              ELSE /\ trace' = trace \o InitializeRuns(files.set, files.installed, listed)
                                 \o <<Ran(IF package \in set.val THEN "gem update"
                                          ELSE "sudo gem install", package, ok)>>
                   /\ files' = [set |-> set.val,
                                installed |-> IF ok THEN files.installed \cup {package}
                                              ELSE files.installed]
                   /\ ret' = IF ok THEN Ok(<<>>) ELSE Err([kind |-> "InstallFailed"])
    /\ UNCHANGED fs

\* GemCache::new() on a machine with some gems installed.
InitGemCache ==
    /\ call = [op |-> "new", package |-> ""]
    /\ fs = PlainFs
    /\ files \in [set : {{}}, installed : SUBSET GemNames]
    /\ ret = NoRet
    /\ trace = <<>>

NextGemCache ==
    \/ GemContains
    \/ GemReinstall

SpecGemCache == InitGemCache /\ [][NextGemCache]_vars

(***************************************************************************)
(* apple::project::gen: the variables handed to the template pack, from    *)
(* the metadata of the two platforms.                                      *)
(***************************************************************************)
MaxFieldsSet == 2

\* The fields of apple::config::Platform that gen reads.
PlatformFields ==
    {"libraries", "frameworks", "valid_archs", "vendor_frameworks", "vendor_sdks",
     "asset_catalogs", "pods", "pod_options", "additional_targets",
     "pre_build_scripts", "post_compile_scripts", "post_build_scripts",
     "command_line_arguments"}

\* The platforms with at most n of the fields given in Cargo.toml.
Platforms(n) ==
    {p \in [PlatformFields -> {None, Some(<<"v">>)}] :
        Cardinality({f \in PlatformFields : IsSome(p[f])}) <= n}

\* Platform::libraries and the other getters that default to the empty list.
libraries(p) == UnwrapOr(p.libraries, <<>>)

frameworks(p) == UnwrapOr(p.frameworks, <<>>)

vendor_frameworks(p) == UnwrapOr(p.vendor_frameworks, <<>>)

vendor_sdks(p) == UnwrapOr(p.vendor_sdks, <<>>)

command_line_arguments(p) == UnwrapOr(p.command_line_arguments, <<>>)

default_archs == <<"arm64", "x86_64">>

\* The closure handed to bike.filter_and_process: one entry per map.insert.
TemplateVars(ios, macos) ==
    [file_groups |-> <<"src">>,
     ios_libraries |-> libraries(ios),
     ios_frameworks |-> frameworks(ios),
     ios_valid_archs |-> UnwrapOr(ios.valid_archs, default_archs),
     ios_vendor_frameworks |-> vendor_frameworks(ios),
     ios_vendor_sdks |-> vendor_sdks(ios),
     macos_libraries |-> libraries(ios),
     macos_frameworks |-> frameworks(macos),
     macos_vendor_frameworks |-> vendor_frameworks(macos),
     macos_vendor_sdks |-> vendor_frameworks(macos),
     asset_catalogs |-> UnwrapOr(ios.asset_catalogs, <<>>),
     ios_pods |-> UnwrapOr(ios.pods, <<>>),
     macos_pods |-> UnwrapOr(macos.pods, <<>>),
     ios_pod_options |-> UnwrapOr(ios.pod_options, <<>>),
     macos_pod_options |-> UnwrapOr(macos.pod_options, <<>>),
     ios_additional_targets |-> ios.additional_targets,
     macos_additional_targets |-> macos.additional_targets,
     ios_pre_build_scripts |-> ios.pre_build_scripts,
     ios_post_compile_scripts |-> ios.post_compile_scripts,
     ios_post_build_scripts |-> ios.post_build_scripts,
     macos_pre_build_scripts |-> macos.pre_build_scripts,
     macos_post_compile_scripts |-> macos.post_compile_scripts,
     macos_post_build_scripts |-> macos.post_build_scripts,
     ios_command_line_arguments |-> command_line_arguments(ios),
     macos_command_line_arguments |-> command_line_arguments(macos)]

\* bike.filter_and_process with the variables of gen.
FillTemplateVars ==
    /\ call.op = "template_vars"
    /\ Pending
    /\ ret' = Ok(TemplateVars(call.ios, call.macos))
    /\ trace' = <<Step("process_templates", TRUE)>>
    /\ UNCHANGED <<fs, files, call>>

InitTemplateVars ==
    /\ call \in [op : {"template_vars"}, ios : Platforms(MaxFieldsSet),
                 macos : Platforms(MaxFieldsSet)]
    /\ fs = PlainFs
    /\ files = NoFiles
    /\ ret = NoRet
    /\ trace = <<>>

NextTemplateVars == FillTemplateVars

SpecTemplateVars == InitTemplateVars /\ [][NextTemplateVars]_vars

(***************************************************************************)
(* doctor::exec: the six checks in turn, one action each.  A bullet is     *)
(* modelled by its kind, a report by its status and its bullets; `trace`   *)
(* holds the reports made so far.                                          *)
(***************************************************************************)
MaxTeams == 1

MaxDevices == 2

\* report_bullet: Ok gives a Success bullet, Err a Failure bullet.
report_bullet(ok) == IF ok THEN "Success" ELSE "Failure"

\* The fold over the bullets: some bullet is a Failure.
has_error(bullets) == \E i \in DOMAIN bullets : bullets[i] = "Failure"

has_warning(bullets) == \E i \in DOMAIN bullets : bullets[i] = "Warning"

\* DoctorStatus::new
DoctorStatusNew(error, warning) ==
    IF error THEN "Failure" ELSE IF warning THEN "Warning" ELSE "Success"

DoctorReport(check, status, bullets) ==
    [check |-> check, status |-> status, bullets |-> bullets]

check_cargo_mobile(install_dir_exists, commit_msg_ok) ==
    DoctorReport("cargo_mobile",
                 DoctorStatusNew(~install_dir_exists, FALSE),
                 <<report_bullet(commit_msg_ok)>>
                   \o (IF ~install_dir_exists THEN <<"Warning", "Warning">> ELSE <<>>))

check_rust(version_ok, valid) ==
    IF version_ok
    THEN DoctorReport("rust", DoctorStatusNew(~valid, FALSE),
                      IF valid THEN <<>> ELSE <<"Failure">>)
    ELSE DoctorReport("rust", DoctorStatusNew(TRUE, FALSE), <<"Failure">>)

\* On macOS, the only system the code is built for.
check_os(macos_version_ok) ==
    DoctorReport("os", DoctorStatusNew(FALSE, FALSE),
                 <<IF macos_version_ok THEN "Success" ELSE "Failure">>)

\* teams: <<>> when find_development_teams failed, else <<number of teams>>.
check_apple(xcode_ok, xcode_select_ok, ios_deploy_ok, teams, plugin_valid) ==
    LET bullets == <<report_bullet(xcode_ok), report_bullet(xcode_select_ok),
                     report_bullet(ios_deploy_ok),
                     IF plugin_valid THEN "Success" ELSE "Failure">>
                   \o (IF IsNone(teams) THEN <<"Failure">>
                       ELSE [i \in 1..Unwrap(teams) |-> "Success"])
    IN DoctorReport("apple",
                    DoctorStatusNew(has_error(bullets) \/ ~plugin_valid,
                                    has_warning(bullets)),
                    bullets)

check_android(valid) ==
    DoctorReport("android", DoctorStatusNew(~valid, FALSE),
                 IF valid THEN <<"Success", "Success">> ELSE <<"Warning">>)

check_device_list(devices) ==
    DoctorReport("device_list", DoctorStatusNew(FALSE, devices = 0),
                 IF devices = 0 THEN <<"Warning">>
                 ELSE [i \in 1..devices |-> "Success"])

DoctorAt(n) == call.op = "doctor" /\ Pending /\ Len(trace) = n

\* An unwrap() of the check met an Err: the process panics.
Panicked == [tag |-> "Panic"]

DoctorReported(report) ==
    /\ trace' = Append(trace, report)
    /\ ret' = NoRet
    /\ UNCHANGED <<fs, files, call>>

CheckCargoMobile ==
    /\ DoctorAt(0)
    /\ \/ /\ ret' = Err([kind |-> "NoHomeDir"])
          /\ UNCHANGED <<fs, files, call, trace>>
       \/ \E install_dir_exists \in BOOLEAN, commit_msg_ok \in BOOLEAN :
              DoctorReported(check_cargo_mobile(install_dir_exists, commit_msg_ok))

CheckRust ==
    /\ DoctorAt(1)
    /\ \E version_ok \in BOOLEAN, valid \in BOOLEAN :
           DoctorReported(check_rust(version_ok, valid))

CheckOs ==
    /\ DoctorAt(2)
    /\ \E macos_version_ok \in BOOLEAN : DoctorReported(check_os(macos_version_ok))

CheckApple ==
    /\ DoctorAt(3)
    /\ \/ /\ ret' = Panicked
          /\ UNCHANGED <<fs, files, call, trace>>
       \/ \E xcode_ok \in BOOLEAN, xcode_select_ok \in BOOLEAN,
             ios_deploy_ok \in BOOLEAN, plugin_valid \in BOOLEAN,
             teams \in {None} \cup {Some(n) : n \in 0..MaxTeams} :
              DoctorReported(check_apple(xcode_ok, xcode_select_ok, ios_deploy_ok,
                                         teams, plugin_valid))

CheckAndroid ==
    /\ DoctorAt(4)
    /\ \/ /\ ret' = Panicked
          /\ UNCHANGED <<fs, files, call, trace>>
       \/ \E valid \in BOOLEAN : DoctorReported(check_android(valid))

\* The last check: exec returns the summary of the six reports.
CheckDeviceList ==
    /\ DoctorAt(5)
    /\ \/ /\ ret' = Panicked
          /\ UNCHANGED <<fs, files, call, trace>>
       \/ \E devices \in 0..MaxDevices :
              /\ trace' = Append(trace, check_device_list(devices))
              /\ ret' = Ok(trace')
              /\ UNCHANGED <<fs, files, call>>

InitDoctor ==
    /\ call = [op |-> "doctor"]
    /\ fs = PlainFs
    /\ files = NoFiles
    /\ ret = NoRet
    /\ trace = <<>>

NextDoctor ==
    \/ CheckCargoMobile
    \/ CheckRust
    \/ CheckOs
    \/ CheckApple
    \/ CheckAndroid
    \/ CheckDeviceList

SpecDoctor == InitDoctor /\ [][NextDoctor]_vars

(***************************************************************************)
(* Properties of the project directory                                     *)
(***************************************************************************)
Returned == ret.tag # "None"

\* The project-dir the raw config of the call gives, if any.
GivenProjectDir == IF IsSome(call.raw) THEN Unwrap(call.raw).project_dir ELSE None

IsPathCall == call.op \in {"android", "apple"}

EffectiveProjectDir ==
    IF call.op = "android" THEN AndroidProjectDir(ret.val)
    ELSE AppleProjectDir(ret.val)

\* The text of a path below `cur`, ".." taken as the parent.
RECURSIVE Below(_, _)
Below(cur, rest) ==
    IF rest = <<>> THEN cur
    ELSE IF Head(rest) = ".." THEN Below(ParentOf(cur), Tail(rest))
    ELSE Below(Append(cur, Head(rest)), Tail(rest))

\* Where a path leads: links are followed as far as the path exists, and
\* what does not exist yet lies below the last directory reached.
RECURSIVE Location(_, _, _)
Location(f, cur, rest) ==
    IF rest = <<>> THEN cur
    ELSE IF Head(rest) = ".." THEN Location(f, ParentOf(cur), Tail(rest))
    ELSE IF IsLink(f, Append(cur, Head(rest)))
    THEN Location(f, f.links[Append(cur, Head(rest))], Tail(rest))
    ELSE IF Append(cur, Head(rest)) \in f.dirs
    THEN Location(f, Append(cur, Head(rest)), Tail(rest))
    ELSE Below(cur, rest)

\* C1: the effective project directory of every Config that Android or
\* Apple from_raw returns leads to a location under the app root, in every
\* file system, with the default project-dir, with links and with paths
\* that do not exist yet.
C1_ProjectDirLeadsUnderRoot ==
    (IsPathCall /\ IsOk(ret))
        => StartsWith(Location(fs, <<>>, EffectiveProjectDir), RootDir)

\* The normalized form of root_dir joined with the given project-dir.
GivenNormalized == normalize_path(fs, Join(RootDir, Unwrap(GivenProjectDir)))

GivenStartsWithRoot ==
    IsOk(GivenNormalized) /\ StartsWith(GivenNormalized.val, RootDir)

ProjectDirError(kind) ==
    /\ IsErr(ret)
    /\ ret.err = [kind |-> kind, project_dir |-> Unwrap(GivenProjectDir),
                  root_dir |-> RootDir]

\* C2 as stated: a given project-dir is accepted only if its normalized
\* form starts with root_dir, and in every other case from_raw fails with
\* OutsideOfAppRoot carrying the project-dir and the root.
C2_OutsideOfAppRootOtherwise ==
    (IsPathCall /\ Returned /\ IsSome(GivenProjectDir))
        => /\ IsOk(ret) => GivenStartsWithRoot
           /\ ~GivenStartsWithRoot => ProjectDirError("OutsideOfAppRoot")

TeamGiven == call.op = "android" \/ Unwrap(call.raw).development_team # <<>>

\* C2 amended: a given project-dir is accepted only if its normalized form
\* starts with root_dir.  When the development team is not empty (Apple
\* checks it first), a form that does not start with root_dir fails with
\* OutsideOfAppRoot carrying the project-dir and the root, and a path that
\* cannot be normalized fails with NormalizationFailed; with an empty team
\* Apple fails with DevelopmentTeamEmpty.  No Config is produced.
C2_OutsideOrNotNormalized ==
    (IsPathCall /\ Returned /\ IsSome(GivenProjectDir))
        => /\ IsOk(ret) => GivenStartsWithRoot
           /\ (TeamGiven /\ IsOk(GivenNormalized) /\ ~GivenStartsWithRoot)
                  => ProjectDirError("OutsideOfAppRoot")
           /\ (TeamGiven /\ IsErr(GivenNormalized))
                  => ProjectDirError("NormalizationFailed")
           /\ ~TeamGiven => (IsErr(ret) /\ ret.err.kind = "DevelopmentTeamEmpty")

\* Both platforms' cases of C2 need a rejected absolute path; this is Apple's.
C2_Witness ==
    /\ call.op = "apple"
    /\ IsSome(GivenProjectDir)
    /\ Unwrap(GivenProjectDir).abs
    /\ ProjectDirError("OutsideOfAppRoot")

C3_WitnessUnderRoot ==
    /\ call.op = "android"
    /\ IsSome(GivenProjectDir)
    /\ ProjectDirError("ContainsSpaces")

(***************************************************************************)
(* Properties of check_domain_syntax                                       *)
(***************************************************************************)
IsDot(d, k) == d[k] = "."

\* The labels of a domain, told by the places of its dots: a label runs
\* from i to j (empty when j = i - 1); it starts at the start of the string
\* or after a dot.
DotPlaces(d) == {k \in 1..Len(d) : IsDot(d, k)}

\* The end of the label that starts at i: just before the next dot, or the
\* end of the string.
LabelEnd(d, i) ==
    (CHOOSE k \in DotPlaces(d) \cup {Len(d) + 1} :
        /\ k >= i
        /\ \A m \in DotPlaces(d) : m >= i => k <= m) - 1

LabelSpans(d) == {<<i, LabelEnd(d, i)>> : i \in {1} \cup {k + 1 : k \in DotPlaces(d)}}

LabelAt(d, sp) == SubSeq(d, sp[1], sp[2])

LabelIsWellFormed(label) ==
    /\ label # <<>>
    /\ label[1] \notin Digits
    /\ \A k \in 1..Len(label) : label[k] \in Digits \cup AsciiLetters

LastLabel(d) == LabelAt(d, CHOOSE sp \in LabelSpans(d) : sp[2] = Len(d))

Kotlin == <<"k", "o", "t", "l", "i", "n">>
Java == <<"j", "a", "v", "a">>

ValidDomain(d) ==
    /\ d # <<>>
    /\ d[1] # "."
    /\ d[Len(d)] # "."
    /\ \A sp \in LabelSpans(d) : LabelIsWellFormed(LabelAt(d, sp))
    /\ LastLabel(d) \notin {Kotlin, Java}

IsDomainCall == call.op = "check_domain_syntax"

\* C4: check_domain_syntax(d) is Ok exactly when d is not empty, neither
\* starts nor ends with a dot, every label is non-empty, does not begin
\* with a digit and is ASCII alphanumeric, and the last label is neither
\* "kotlin" nor "java"; a reserved name in another label is accepted.
C4_OkExactlyForValidDomains ==
    (IsDomainCall /\ Returned) => (IsOk(ret) <=> ValidDomain(call.domain_name))

\* "kotlin.<label>" accepted: a reserved name that is not the last label.
C4_Witness ==
    /\ IsDomainCall
    /\ IsOk(ret)
    /\ \E sp \in LabelSpans(call.domain_name) :
          /\ LabelAt(call.domain_name, sp) = Kotlin
          /\ sp[2] < Len(call.domain_name)

\* The spans of the labels that fail a check of their own.
OffendingSpans(d) == {sp \in LabelSpans(d) : ~LabelIsWellFormed(LabelAt(d, sp))}

FirstOffending(d) ==
    CHOOSE sp \in OffendingSpans(d) : \A o \in OffendingSpans(d) : sp[1] <= o[1]

BadCharSet(label) ==
    {label[k] : k \in {i \in 1..Len(label) : label[i] \notin Digits \cup AsciiLetters}}

FirstAt(label, c) ==
    CHOOSE k \in 1..Len(label) : label[k] = c /\ \A i \in 1..k - 1 : label[i] # c

\* The bad characters of a label, each once, by first occurrence.
BadCharsInOrder(label) ==
    CHOOSE b \in [1..Cardinality(BadCharSet(label)) -> BadCharSet(label)] :
        \A i, j \in DOMAIN b : i < j => FirstAt(label, b[i]) < FirstAt(label, b[j])

LabelError(label) ==
    IF label = <<>> THEN [kind |-> "EmptyLabel"]
    ELSE IF label[1] \in Digits THEN [kind |-> "StartsWithDigit", label |-> label]
    ELSE [kind |-> "NotAsciiAlphanumeric", bad_chars |-> BadCharsInOrder(label)]

ExpectedDomainError(d) ==
    IF d = <<>> THEN [kind |-> "Empty"]
    ELSE IF d[1] = "." \/ d[Len(d)] = "." THEN [kind |-> "StartsOrEndsWithADot"]
    ELSE IF OffendingSpans(d) # {} THEN LabelError(LabelAt(d, FirstOffending(d)))
    ELSE [kind |-> "ReservedPackageName", package_name |-> LastLabel(d)]

\* C5: a rejected domain gets the error of this precedence: Empty, then
\* StartsOrEndsWithADot, then the error of the first offending label alone
\* (EmptyLabel, else StartsWithDigit with the label, else
\* NotAsciiAlphanumeric with that label's distinct bad characters in
\* first-occurrence order), and ReservedPackageName only when every label
\* passes.
C5_ErrorPrecedence ==
    (IsDomainCall /\ IsErr(ret)) => ret.err = ExpectedDomainError(call.domain_name)

\* Two distinct bad characters in the first offending label, and a later
\* label that offends as well.
C5_Witness ==
    /\ IsDomainCall
    /\ IsErr(ret)
    /\ ret.err.kind = "NotAsciiAlphanumeric"
    /\ Len(ret.err.bad_chars) = 2
    /\ Cardinality(OffendingSpans(call.domain_name)) > 1

(***************************************************************************)
(* Properties of the version parsers                                       *)
(***************************************************************************)
DotsBefore(v, i) == Cardinality({k \in 1..i - 1 : IsDot(v, k)})

NumComponents(v) == Cardinality({k \in 1..Len(v) : IsDot(v, k)}) + 1

\* The n-th dot-separated component of v.
Component(v, n) ==
    LabelAt(v, CHOOSE sp \in LabelSpans(v) : DotsBefore(v, sp[1]) = n - 1)

Unsigned(s) == IF s # <<>> /\ s[1] = "+" THEN Tail(s) ELSE s

\* The digits of s after its leading zeros.
Significant(s) ==
    SubSeq(s, (CHOOSE k \in 1..Len(s) + 1 :
                  /\ \A i \in 1..k - 1 : s[i] = "0"
                  /\ k = Len(s) + 1 \/ s[k] # "0"), Len(s))

U32MaxText == <<"4", "2", "9", "4", "9", "6", "7", "2", "9", "5">>

\* Decimal texts of one length compared digit by digit.
TextAtMost(s, t) ==
    \/ s = t
    \/ \E k \in 1..Len(s) :
          /\ \A i \in 1..k - 1 : s[i] = t[i]
          /\ DigitVal(s[k]) < DigitVal(t[k])

\* s is the text of a number of 0 .. 2^32 - 1, with an optional "+".
IsU32Text(s) ==
    /\ Unsigned(s) # <<>>
    /\ \A k \in 1..Len(Unsigned(s)) : Unsigned(s)[k] \in Digits
    /\ \/ Len(Significant(Unsigned(s))) < Len(U32MaxText)
       \/ /\ Len(Significant(Unsigned(s))) = Len(U32MaxText)
          /\ TextAtMost(Significant(Unsigned(s)), U32MaxText)

RECURSIVE DecimalValue(_)
DecimalValue(s) ==
    IF s = <<>> THEN 0
    ELSE 10 * DecimalValue(SubSeq(s, 1, Len(s) - 1)) + DigitVal(s[Len(s)])

\* The number a u32 text stands for, as the two limbs.
NumberOf(s) ==
    IF Significant(Unsigned(s)) = U32MaxText
    THEN [hi |-> LimbBase - 1, lo |-> LimbBase - 1]
    ELSE U32(DecimalValue(Significant(Unsigned(s))))

ComponentOrZero(v, n) ==
    IF n <= NumComponents(v) THEN NumberOf(Component(v, n)) ELSE U32(0)

BadComponents(v) ==
    {n \in 1..NumComponents(v) : ~IsU32Text(Component(v, n))}

PositionError(n) ==
    CASE n = 1 -> "MajorInvalid" [] n = 2 -> "MinorInvalid" [] n = 3 -> "PatchInvalid"

IsTripleCall == call.op = "VersionTriple::from_str"

\* C6: VersionTriple::from_str accepts exactly the strings of one, two or
\* three dot-separated components that are each a u32, a missing minor and
\* patch being 0; four or more components fail with VersionStringInvalid,
\* and a component that is empty, not a number or above 2^32 - 1 fails
\* with the Major-, Minor- or PatchInvalid of the first bad position; the
\* numbers returned are the numbers written.
C6_VersionTripleFromStr ==
    (IsTripleCall /\ Returned)
        => /\ IsOk(ret) <=> (NumComponents(call.v) <= 3 /\ BadComponents(call.v) = {})
           /\ IsOk(ret) => ret.val = VersionTriple(ComponentOrZero(call.v, 1),
                                                   ComponentOrZero(call.v, 2),
                                                   ComponentOrZero(call.v, 3))
           /\ NumComponents(call.v) >= 4
                 => ret = VersionErr("VersionStringInvalid", call.v)
           /\ (NumComponents(call.v) <= 3 /\ BadComponents(call.v) # {})
                 => ret = VersionErr(
                        PositionError(CHOOSE n \in BadComponents(call.v) :
                                         \A m \in BadComponents(call.v) : n <= m),
                        call.v)

\* 2^32 as the minor component, after a good major one.
C6_Witness ==
    /\ IsTripleCall
    /\ NumComponents(call.v) = 3
    /\ Component(call.v, 2) = <<"4", "2", "9", "4", "9", "6", "7", "2", "9", "6">>
    /\ IsErr(ret)
    /\ ret.err.kind = "MinorInvalid"

C6_WitnessMax ==
    /\ IsTripleCall
    /\ IsOk(ret)
    /\ ret.val.major = [hi |-> LimbBase - 1, lo |-> LimbBase - 1]
    /\ ret.val.patch = U32(0)

IsInfoCall == call.op = "VersionInfo::from_raw"

LongParses ==
    IsNone(call.version_string) \/ IsOk(VersionNumberFromStr(Unwrap(call.version_string)))

ShortParses ==
    \/ IsNone(call.short_version_string)
    \/ IsOk(VersionTripleFromStr(Unwrap(call.short_version_string)))

\* The first three components of bundle-version, a missing one being 0.
FirstThree(v) ==
    VersionTriple(ComponentOrZero(v, 1), ComponentOrZero(v, 2), ComponentOrZero(v, 3))

ShortDiffers ==
    FirstThree(Unwrap(call.version_string))
        # FirstThree(Unwrap(call.short_version_string))

\* C7: VersionInfo::from_raw fails with InvalidVersionConfiguration when
\* bundle-version-short is given without bundle-version, and with
\* IosVersionNumberMismatch when both are given and the short version
\* differs from the first three components of bundle-version; a parse
\* error of either string comes before both.
C7_VersionInfoErrors ==
    (IsInfoCall /\ Returned)
        => /\ ~LongParses => (IsErr(ret) /\ ret.err.kind = "IosVersionNumberInvalid")
           /\ (LongParses /\ ~ShortParses)
                 => (IsErr(ret) /\ ret.err.kind = "BundleVersionInvalid")
           /\ (LongParses /\ ShortParses /\ IsSome(call.short_version_string)
                 /\ IsNone(call.version_string))
                 => ret = AppleErr("InvalidVersionConfiguration")
           /\ (LongParses /\ ShortParses /\ IsSome(call.short_version_string)
                 /\ IsSome(call.version_string) /\ ShortDiffers)
                 => ret = AppleErr("IosVersionNumberMismatch")

\* A short version that does not parse, given without bundle-version.
C7_Witness ==
    /\ IsInfoCall
    /\ IsNone(call.version_string)
    /\ IsSome(call.short_version_string)
    /\ IsErr(ret)
    /\ ret.err.kind = "BundleVersionInvalid"

C7_WitnessMismatch ==
    /\ IsInfoCall
    /\ IsSome(call.version_string)
    /\ NumComponents(Unwrap(call.version_string)) = 4
    /\ ret = AppleErr("IosVersionNumberMismatch")

OsVersionParses(opt) == IsNone(opt) \/ IsOk(VersionDoubleFromStr(Unwrap(opt)))

\* C8: an unparseable macos-version is reported as MacOsVersionInvalid (the
\* apple.macos-version report) and an unparseable ios-version as
\* IosVersionInvalid (the apple.ios-version report), never one under the
\* other's error.
C8_VersionErrorsNameTheirKey ==
    (call.op = "apple" /\ IsErr(ret))
        => /\ ret.err.kind = "IosVersionInvalid"
                 => ~OsVersionParses(Unwrap(call.raw).ios_version)
           /\ ret.err.kind = "MacOsVersionInvalid"
                 => ~OsVersionParses(Unwrap(call.raw).macos_version)
           /\ (/\ ret.err.kind \in {"IosVersionInvalid", "MacOsVersionInvalid"}
               /\ OsVersionParses(Unwrap(call.raw).ios_version))
                 => AppleErrorReport(ret.err.kind) = "apple.macos-version invalid"

(***************************************************************************)
(* Properties of Config::load_or_gen and Config::gen                       *)
(***************************************************************************)
\* The directories a call from cwd looks into: the directory cwd resolves
\* to and the directories above it.
SearchedDirs(cwd) ==
    IF IsOk(Canonicalize(fs, cwd))
    THEN {SubSeq(Canonicalize(fs, cwd).val, 1, k)
            : k \in 0..Len(Canonicalize(fs, cwd).val)}
    ELSE {}

HoldingDirs(cwd) == {d \in SearchedDirs(cwd) : files[d] # Absent}

\* A config file is there to be discovered when the call starts.
Discovered(cwd) == HoldingDirs(cwd) # {}

NearestHolding(cwd) ==
    CHOOSE d \in HoldingDirs(cwd) : \A e \in HoldingDirs(cwd) : Len(e) <= Len(d)

StepsOf(tr) == {tr[i].step : i \in DOMAIN tr}

ReturnsOrigin(r, origin) == IsOk(r) /\ r.val.origin = origin

FailsWith(r, kind) == IsErr(r) /\ r.err.kind = kind

\* What the call comes to when the nearest config file holds `content`.
LoadedAs(r, dir, content) ==
    IF content.kind = "unreadable"
    THEN FailsWith(r, "LoadFailed") /\ r.err.cause.kind = "ReadFailed"
    ELSE IF content.kind = "unparsable"
    THEN FailsWith(r, "LoadFailed") /\ r.err.cause.kind = "ParseFailed"
    ELSE IF IsErr(ConfigFromRaw(fs, dir, content.raw))
    THEN FailsWith(r, "FromRawFailed") /\ r.err.path = dir
    ELSE ReturnsOrigin(r, "Loaded")

LoadOrGenKeepsToDiscovered ==
    /\ ReturnsOrigin(ret', "Loaded") => Discovered(call'.cwd)
    /\ ReturnsOrigin(ret', "FreshlyMinted") => ~Discovered(call'.cwd)
    /\ Discovered(call'.cwd)
         => /\ StepsOf(trace') \cap {"prompt", "detect", "write"} = {}
            /\ files' = files
            /\ LoadedAs(ret', NearestHolding(call'.cwd),
                        files[NearestHolding(call'.cwd)])

\* C9: load_or_gen returns Origin::Loaded only when a config file is
\* discovered at cwd or one of its ancestors, and whenever one is discovered
\* it neither prompts, detects nor writes: a readable, parsable and valid
\* file gives Loaded, an unreadable or unparsable one LoadFailed, an invalid
\* one FromRawFailed.  FreshlyMinted is returned only when none was
\* discovered.
C9_LoadedExactlyWhenDiscovered == [][LoadOrGenKeepsToDiscovered]_vars

\* Loaded through the link /l from the config file of /w, /w/p holding none.
C9_Witness ==
    /\ call.op = "load_or_gen"
    /\ call.cwd = <<"l">>
    /\ files[<<"w", "p">>] = Absent
    /\ files[<<"w">>] # Absent
    /\ ReturnsOrigin(ret, "Loaded")

\* An invalid config file discovered: no fallback to generation.
C9_WitnessInvalid ==
    /\ call.op = "load_or_gen"
    /\ FailsWith(ret, "FromRawFailed")
    /\ StepsOf(trace) = {"load", "from_raw"}

GenRan(tr) == StepsOf(tr) \cap {"prompt", "detect"} # {}

GenErrorOf(step) ==
    CASE step = "prompt" -> "PromptFailed"
      [] step = "detect" -> "DetectFailed"
      [] step = "canonicalize" -> "CanonicalizeFailed"
      [] step = "from_raw" -> "FromRawFailed"

\* The files differ at most in the directory cwd resolves to.
WrittenOnlyAtRoot(before, after, cwd) ==
    \A d \in DOMAIN before :
        after[d] # before[d] => Canonicalize(fs, cwd) = Ok(d)

GenWritesOnlyValidated ==
    /\ \A j \in DOMAIN trace' :
           trace'[j].step = "write"
             => /\ GenRan(trace')
                /\ \E i \in 1..(j - 1) : trace'[i] = Step("from_raw", TRUE)
    /\ "prompt" \in StepsOf(trace') => call'.non_interactive = "No"
    /\ "detect" \in StepsOf(trace') => call'.non_interactive = "Yes"
    /\ files' # files
         => /\ "write" \in StepsOf(trace')
            /\ WrittenOnlyAtRoot(files, files', call'.cwd)
    /\ \A d \in DOMAIN files :
           (files'[d] # files[d] /\ files'[d].kind = "toml")
             => IsOk(ConfigFromRaw(fs, d, files'[d].raw))
    /\ \A step \in {"prompt", "detect", "canonicalize", "from_raw"} :
           (GenRan(trace') /\ trace'[Len(trace')] = Step(step, FALSE))
             => /\ FailsWith(ret', "GenFailed")
                /\ ret'.err.cause.kind = GenErrorOf(step)
                /\ files' = files
                /\ "write" \notin StepsOf(trace')

\* C10: gen writes the config file, into the directory cwd resolves to, only
\* after the prompted or detected raw config passed Config::from_raw; when
\* prompting, detection, canonicalization of cwd or validation fails, gen
\* returns the GenError of that step and no config file has been written.
C10_WriteOnlyAfterValidation == [][GenWritesOnlyValidated]_vars

\* A config generated from the prompt and written into /w/p through /l.
C10_Witness ==
    /\ call.op = "load_or_gen"
    /\ call.cwd = <<"l">>
    /\ ReturnsOrigin(ret, "FreshlyMinted")
    /\ trace = <<Step("load", TRUE), Step("prompt", TRUE), Step("canonicalize", TRUE),
                 Step("from_raw", TRUE), Step("write", TRUE)>>
    /\ files[<<"w", "p">>].kind = "toml"

\* A detected raw config that fails validation: nothing is written.
C10_WitnessInvalid ==
    /\ call.op = "load_or_gen"
    /\ FailsWith(ret, "GenFailed")
    /\ ret.err.cause.kind = "FromRawFailed"
    /\ "detect" \in StepsOf(trace)
    /\ \A d \in DOMAIN files : files[d] = Absent

(***************************************************************************)
(* Properties of Raw::discover_root                                        *)
(***************************************************************************)
IsDiscoverCall == call.op = "discover_root"

\* The directory cwd resolves to and the directories above it, nearest first.
ChainOf(dir) == [i \in 1..(Len(dir) + 1) |-> SubSeq(dir, 1, Len(dir) + 1 - i)]

Holds(dir) == files[dir] # Absent

\* The place on the chain of the nearest directory holding a config file,
\* 0 when there is none.
NearestPlace(chain) ==
    IF \E i \in DOMAIN chain : Holds(chain[i])
    THEN CHOOSE i \in DOMAIN chain :
             Holds(chain[i]) /\ \A j \in 1..(i - 1) : ~Holds(chain[j])
    ELSE 0

DiscoveredAlong(chain) ==
    /\ IsOk(ret)
    /\ IF NearestPlace(chain) = 0
       THEN /\ ret.val = None
            /\ Len(trace) = Len(chain)
       ELSE /\ ret.val = Some(chain[NearestPlace(chain)])
            /\ Len(trace) = NearestPlace(chain)
    /\ \A i \in DOMAIN trace : trace[i] = Append(chain[i], file_name)

\* C11: discover_root returns the nearest directory holding the config
\* file, looking into the canonicalized cwd first and then into each parent
\* in turn, the file system root included; it returns None only when no
\* directory of that chain holds the file, and it looks at no more paths
\* than the chain has directories.
C11_DiscoverRootNearest ==
    (IsDiscoverCall /\ Returned)
        => IF IsOk(Canonicalize(fs, call.cwd))
           THEN DiscoveredAlong(ChainOf(Canonicalize(fs, call.cwd).val))
           ELSE IsErr(ret) /\ trace = <<>>

\* Through the link /d/l the file of /w is found, not the one of /d.
C11_Witness ==
    /\ IsDiscoverCall
    /\ call.cwd = <<"d", "l">>
    /\ Holds(<<"d">>)
    /\ ~Holds(<<"w", "p">>)
    /\ ret = Ok(Some(<<"w">>))
    /\ Len(trace) = 2

\* No file up to the root: None after looking into every directory.
C11_WitnessNone ==
    /\ IsDiscoverCall
    /\ call.cwd = <<"w", "p">>
    /\ ret = Ok(None)
    /\ Len(trace) = 3

(***************************************************************************)
(* Properties of apple::project::gen                                       *)
(***************************************************************************)
IsAppleGenCall == call.op = "apple_gen"

\* The place of a step in the order of gen.
AppleGenRank(step) ==
    CASE step = "rustup" -> 1
      [] step = "rust_version_check" -> 2
      [] step = "deps_install" -> 3
      [] step = "lookup_pack" -> 4
      [] step = "process_templates" -> 5
      [] step = "symlink_asset_dir" -> 6
      [] step = "create_asset_catalog_dir" -> 7
      [] step = "xcodegen" -> 8
      [] step = "pod_install" -> 9

AppleGenErrorOf(step) ==
    CASE step = "rustup" -> "RustupFailed"
      [] step = "rust_version_check" -> "RustVersionCheckFailed"
      [] step = "deps_install" -> "DepsInstallFailed"
      [] step = "lookup_pack" -> "MissingPack"
      [] step = "process_templates" -> "TemplateProcessingFailed"
      [] step = "symlink_asset_dir" -> "AssetDirSymlinkFailed"
      [] step = "create_asset_catalog_dir" -> "DirectoryCreationFailed"
      [] step = "xcodegen" -> "XcodegenFailed"
      [] step = "pod_install" -> "PodInstallFailed"

\* The steps that run once each when gen gets that far.
AppleGenOnce ==
    {"rustup", "rust_version_check", "deps_install", "lookup_pack",
     "process_templates", "symlink_asset_dir", "xcodegen"}

RanBefore(step, place) == \E i \in 1..(place - 1) : trace[i] = Step(step, TRUE)

HasPods == call.ios_pods # <<>> \/ call.macos_pods # <<>>

\* C12: gen runs its steps in the order toolchains, Rust version check,
\* dependency install, template processing (the lookup of the template pack
\* and then the processing), asset-dir symlink, asset-catalog
\* directories, xcodegen, pod install; a step runs only after every earlier
\* step succeeded, the first failure is returned and nothing runs after it;
\* pod install runs exactly when the iOS or the macOS pod list is non-empty.
C12_AppleGenOrder ==
    IsAppleGenCall
        => /\ \A i \in DOMAIN trace :
                /\ \A j \in 1..(i - 1) :
                     /\ trace[j].ok
                     /\ AppleGenRank(trace[j].step) <= AppleGenRank(trace[i].step)
                /\ \A s \in AppleGenOnce :
                     AppleGenRank(s) < AppleGenRank(trace[i].step) => RanBefore(s, i)
                /\ trace[i].step \in {"xcodegen", "pod_install"}
                     => Cardinality({j \in 1..(i - 1) :
                                       trace[j].step = "create_asset_catalog_dir"})
                          = call.asset_catalogs
                /\ ~trace[i].ok
                     => /\ i = Len(trace)
                        /\ ret = Err([kind |-> AppleGenErrorOf(trace[i].step)])
           /\ "pod_install" \in StepsOf(trace) => HasPods
           /\ IsOk(ret)
                => /\ \A i \in DOMAIN trace : trace[i].ok
                   /\ "xcodegen" \in StepsOf(trace)
                   /\ HasPods <=> "pod_install" \in StepsOf(trace)
           /\ IsErr(ret) => trace # <<>> /\ ~trace[Len(trace)].ok
           /\ (Pending /\ trace # <<>>) => trace[Len(trace)].ok

\* gen returned Ok after pod install, run for the macOS pods alone.
C12_Witness ==
    /\ IsAppleGenCall
    /\ call.ios_pods = <<>>
    /\ call.macos_pods # <<>>
    /\ call.asset_catalogs = 2
    /\ IsOk(ret)
    /\ trace[Len(trace)] = Step("pod_install", TRUE)

\* xcodegen failed: pod install did not run although there are pods.
C12_WitnessFailed ==
    /\ IsAppleGenCall
    /\ HasPods
    /\ ret = Err([kind |-> "XcodegenFailed"])
    /\ "pod_install" \notin StepsOf(trace)

(***************************************************************************)
(* Properties of android Device::run                                       *)
(***************************************************************************)
IsDeviceRunCall == call.op = "device_run"

\* The order the steps of run are to come in, for either way of building.
ExpectedRunOrder ==
    IF call.build_app_bundle
    THEN <<"install_bundletool", "clean_apks", "build_aab", "build_apks_from_aab",
           "install_apk_from_aab", "start_activity", "wake_screen", "logcat">>
    ELSE <<"remove_broken_links", "assemble", "install_apk",
           "start_activity", "wake_screen", "logcat">>

RunErrorOf(step) ==
    CASE step = "install_bundletool" -> "BundletoolInstallFailed"
      [] step \in {"clean_apks", "build_apks_from_aab"} -> "ApksFromAabBuildError"
      [] step = "build_aab" -> "AabBuildError"
      [] step \in {"install_apk_from_aab", "install_apk"} -> "ApkInstallFailed"
      [] step \in {"remove_broken_links", "assemble"} -> "ApkBuildFailed"
      [] step = "start_activity" -> "StartFailed"
      [] step = "wake_screen" -> "WakeScreenFailed"
      [] step = "logcat" -> "LogcatFailed"

Succeeded(step) == \E i \in DOMAIN trace : trace[i].step = step /\ trace[i].ok

\* C13: run starts the app only after a successful build and a successful
\* install; the steps come in the order bundletool install, clean old APKS,
\* build AAB, build APKS, install APKS with build_app_bundle, and remove
\* broken links, assemble, adb install without it, then start activity, wake
\* screen, logcat; the first failing step returns its RunError and no later
\* step runs.
C13_RunOrder ==
    IsDeviceRunCall
        => /\ Len(trace) <= Len(ExpectedRunOrder)
           /\ \A i \in DOMAIN trace :
                /\ trace[i].step = ExpectedRunOrder[i]
                /\ \A j \in 1..(i - 1) : trace[j].ok
                /\ ~trace[i].ok
                     => /\ i = Len(trace)
                        /\ IsErr(ret)
                        /\ ret.err.kind = RunErrorOf(trace[i].step)
           /\ "start_activity" \in StepsOf(trace)
                => IF call.build_app_bundle
                   THEN Succeeded("build_aab") /\ Succeeded("build_apks_from_aab")
                          /\ Succeeded("install_apk_from_aab")
                   ELSE Succeeded("assemble") /\ Succeeded("install_apk")
           /\ IsOk(ret) => Len(trace) = Len(ExpectedRunOrder)
                             /\ \A i \in DOMAIN trace : trace[i].ok
           /\ IsErr(ret) => trace # <<>> /\ ~trace[Len(trace)].ok
           /\ (Pending /\ trace # <<>>) => trace[Len(trace)].ok

\* The app bundle was installed and the app started.
C13_Witness ==
    /\ IsDeviceRunCall
    /\ call.build_app_bundle
    /\ Succeeded("install_apk_from_aab")
    /\ Succeeded("start_activity")

\* adb install failed: the run ends there with ApkInstallFailed.
C13_WitnessFailed ==
    /\ IsDeviceRunCall
    /\ ~call.build_app_bundle
    /\ ret = RunError("ApkInstallFailed", "InstallFailed")
    /\ Len(trace) = 3

(***************************************************************************)
(* Properties of util::pipe                                                *)
(***************************************************************************)
IsPipeCall == call.op = "pipe"

StepAt(name) == CHOOSE i \in DOMAIN trace : trace[i].step = name

Did(name) == name \in StepsOf(trace)

\* C14: pipe never starts the receiving command when the sending command
\* produced empty stdout, and returns Ok(false); with non-empty stdout it
\* starts the receiver and writes all of the output to its stdin, and it
\* waits for the receiver whether or not the write failed; when the write
\* failed the error is PipeFailed, also when the wait failed too; Ok(true)
\* is returned only when both succeeded.
C14_PipeWaitsAndPrefersPipeError ==
    (IsPipeCall /\ Returned)
        => /\ (trace[1].ok /\ trace[1].arg = <<>>)
                => ~Did("rx") /\ ret = Ok(FALSE)
           /\ (trace[1].ok /\ trace[1].arg # <<>>) => Did("rx")
           /\ ret = Ok(FALSE) => trace = <<Ran("tx", <<>>, TRUE)>>
           /\ Did("rx") => trace[1].ok /\ trace[1].arg # <<>>
           /\ (Did("rx") /\ trace[StepAt("rx")].ok)
                => /\ Did("write") /\ Did("wait")
                   /\ StepAt("write") < StepAt("wait")
                   /\ trace[StepAt("write")].ok
                        <=> trace[StepAt("write")].arg = trace[1].arg
                   /\ ~trace[StepAt("write")].ok => FailsWith(ret, "PipeFailed")
                   /\ (trace[StepAt("write")].ok /\ ~trace[StepAt("wait")].ok)
                        => FailsWith(ret, "WaitFailed")
           /\ ret = Ok(TRUE)
                => /\ Did("write") /\ trace[StepAt("write")].ok
                   /\ Did("wait") /\ trace[StepAt("wait")].ok

\* The write failed partway, the receiver was waited for, and the wait
\* failed too: PipeFailed.
C14_Witness ==
    /\ IsPipeCall
    /\ Len(trace) = 4
    /\ trace[3] = Ran("write", <<"a">>, FALSE)
    /\ trace[4] = Ran("wait", <<>>, FALSE)
    /\ FailsWith(ret, "PipeFailed")

C14_WitnessEmpty ==
    IsPipeCall /\ ret = Ok(FALSE) /\ Len(trace) = 1

(***************************************************************************)
(* Properties of util::with_working_dir                                    *)
(***************************************************************************)
IsWorkingDirCall == call.op = "with_working_dir"

CallbackRunning == Pending /\ Len(trace) \in {2, 3}

\* C15: after with_working_dir returned, the current directory of the
\* process is what it was before the call, whether the callback returned Ok
\* or Err; a callback error is passed through as CallbackFailed; the
\* current directory differs from the one before the call only while the
\* callback runs.
C15_CwdRestored ==
    IsWorkingDirCall
        => /\ (Returned /\ Did("callback")) => fs.cwd = call.cwd_before
           /\ (Did("callback") /\ ~trace[StepAt("callback")].ok)
                => FailsWith(ret, "CallbackFailed")
           /\ fs.cwd # call.cwd_before => CallbackRunning

\* The part of C15 that holds: the callback error is passed through, and
\* the directory is restored after a callback that returned Ok, unless
\* setting it back failed.
C15_CwdRestoredAfterOk ==
    IsWorkingDirCall
        => /\ (Did("callback") /\ ~trace[StepAt("callback")].ok)
                => FailsWith(ret, "CallbackFailed")
           /\ IsOk(ret) => fs.cwd = call.cwd_before
           /\ (Returned /\ ~Did("callback")) => fs.cwd = call.cwd_before

\* The callback failed in /o, the call returned, and the process is still
\* in /o instead of /r.
C15_WitnessLeftBehind ==
    /\ IsWorkingDirCall
    /\ call.cwd_before = <<"r">>
    /\ call.working_dir = RelPath(<<"..", "o">>)
    /\ FailsWith(ret, "CallbackFailed")
    /\ fs.cwd = <<"o">>

(***************************************************************************)
(* Properties of sequences of load_or_gen calls                            *)
(***************************************************************************)
Wrote(tr) == "write" \in StepsOf(tr)

HoldsAfter(cwd) ==
    /\ IsOk(Canonicalize(fs, cwd))
    /\ files'[Canonicalize(fs, cwd).val] # Absent

\* A call mints or writes only where no config file is on the chain of its
\* cwd, a minted config file is there afterwards, and a config file that is
\* there is neither written again nor removed.
MintsOnlyOnce ==
    /\ (ReturnsOrigin(ret', "FreshlyMinted") \/ Wrote(trace') \/ files' # files)
         => ~Discovered(call'.cwd)
    /\ ReturnsOrigin(ret', "FreshlyMinted") => HoldsAfter(call'.cwd)
    /\ \A d \in DOMAIN files : files[d] # Absent => files'[d] = files[d]

\* C16: once load_or_gen has returned FreshlyMinted, the config file it
\* wrote stays where it is, and no later call from that directory or a
\* directory below it returns FreshlyMinted or writes a config file: every
\* call that mints or writes starts where no config file is at cwd or above,
\* so each config file is written at most once.
C16_MintedAtMostOnce == [][MintsOnlyOnce]_vars

\* A call from /w/p, below the generated config file of /w, loads it.
C16_Witness ==
    /\ call.op = "load_or_gen"
    /\ call.cwd \in {<<"w", "p">>, <<"l">>}
    /\ files[<<>>] = Absent
    /\ files[<<"w">>] = Toml(QuietEnv.raw.val)
    /\ files[<<"w", "p">>] = Absent
    /\ ReturnsOrigin(ret, "Loaded")
    /\ ~Wrote(trace)

(***************************************************************************)
(* Properties of project::gen                                              *)
(***************************************************************************)
IsProjectGenCall == call.op = "project_gen"

FilesAsBefore ==
    \A f \in FileNames : files[f] = [exists |-> f \in call.existing, by |-> 0]

\* The answers that permit the overwrite: a yes, or nothing for the default.
Consents(response) == response \in {"y", "Y", ""}

\* The pack processed at place i of the trace overwrote files only after the
\* prompt just before it was answered with consent.
OverwroteWithConsent(i) ==
    trace[i].arg # {}
        => /\ trace[i - 1].step = "prompt"
           /\ trace[i - 1].ok
           /\ Consents(trace[i - 1].arg)

\* C17: when gen returns OverwriteFilePermissionDenied no pack was processed
\* by the call and no file under the root was created or overwritten; with
\* dot_first_init_exists a pack that overwrites existing files is processed
\* only after the user answered yes, or accepted the default, for that pack;
\* an unrecognised answer counts as no.
C17_DeniedMeansUntouched ==
    IsProjectGenCall
        => /\ FailsWith(ret, "OverwriteFilePermissionDenied")
                => ~Did("process") /\ FilesAsBefore
           /\ call.dot_first_init_exists
                => \A i \in DOMAIN trace :
                       trace[i].step = "process" => OverwroteWithConsent(i)
           /\ \A i \in DOMAIN trace :
                  (trace[i].step = "prompt" /\ trace[i].ok /\ ~Consents(trace[i].arg))
                    => FailsWith(ret, "OverwriteFilePermissionDenied")

\* The parts of C17 that hold: a pack is processed after a prompt only when
\* the prompt was answered with consent, an unrecognised answer counts as
\* no, and a denial leaves the pack it was asked for unprocessed.
C17_DeniedPackUnprocessed ==
    IsProjectGenCall
        => /\ \A i \in DOMAIN trace :
                  (trace[i].step = "process" /\ trace[i - 1].step = "prompt")
                    => trace[i - 1].ok /\ Consents(trace[i - 1].arg)
           /\ \A i \in DOMAIN trace :
                  (trace[i].step = "prompt" /\ trace[i].ok /\ ~Consents(trace[i].arg))
                    => /\ FailsWith(ret, "OverwriteFilePermissionDenied")
                       /\ i = Len(trace)
           /\ FailsWith(ret, "OverwriteFilePermissionDenied")
                => trace[Len(trace)].step = "prompt"

\* The first pack was processed, the prompt for the second was answered no.
C17_WitnessLaterPackDenied ==
    /\ IsProjectGenCall
    /\ call.in_root
    /\ FailsWith(ret, "OverwriteFilePermissionDenied")
    /\ Processed(trace) = 1
    /\ ~FilesAsBefore

\* Run from another directory than the root: an existing file of the root
\* was overwritten without a prompt.
C17_WitnessNoPrompt ==
    /\ IsProjectGenCall
    /\ call.dot_first_init_exists
    /\ ~call.in_root
    /\ ~Did("prompt")
    /\ IsOk(ret)
    /\ files["a"].by = 1
    /\ "a" \in call.existing

(***************************************************************************)
(* Properties of the apple commands open, build, archive and run           *)
(***************************************************************************)
IsCliCall == call.op = "apple_exec"

Launches == {"open_in_xcode", "build", "archive", "run"}

NothingLaunched == \A i \in DOMAIN trace : trace[i].step \notin Launches

DidOk(name) == \E i \in DOMAIN trace : trace[i].step = name /\ trace[i].ok

Loaded == DidOk("load_or_gen") /\ DidOk("metadata_load") /\ DidOk("version_check")

MetadataSupported ==
    \E i \in DOMAIN trace : trace[i].step = "metadata_load" /\ trace[i].arg = "supported"

\* In archive the archive of a target comes right after its successful build.
ArchiveAfterBuild ==
    \A i \in DOMAIN trace :
        trace[i].step = "archive"
            => /\ trace[i - 1].step = "build"
               /\ trace[i - 1].ok
               /\ trace[i - 1].arg = trace[i].arg

\* C18: open, build, archive and run launch nothing (Xcode, a build, an
\* archive, a deployment) when the Xcode project directory does not exist:
\* once the config and metadata load and the Rust version check succeeded
\* they fail with ProjectDirAbsent before any such step; an archive runs
\* only after the build of that target succeeded.
C18_NoLaunchWithoutProject ==
    IsCliCall
        => /\ ~call.project_dir_exists
                => /\ NothingLaunched
                   /\ (Returned /\ Loaded) => FailsWith(ret, "ProjectDirAbsent")
           /\ ArchiveAfterBuild

\* C18 as it holds: the commands fail with ProjectDirAbsent once the loads
\* and the version check succeeded and the metadata marks iOS as supported;
\* with iOS unsupported they fail with Unsupported instead.  Nothing is
\* launched either way.
C18_NoLaunchWithoutSupportedProject ==
    IsCliCall
        => /\ ~call.project_dir_exists
                => /\ NothingLaunched
                   /\ (Returned /\ Loaded /\ MetadataSupported)
                        => FailsWith(ret, "ProjectDirAbsent")
                   /\ (Returned /\ ~MetadataSupported)
                        => ~FailsWith(ret, "ProjectDirAbsent")
           /\ ArchiveAfterBuild

\* archive stopped by the missing project directory.
C18_Witness ==
    /\ IsCliCall
    /\ call.command = "archive"
    /\ ~call.project_dir_exists
    /\ Loaded
    /\ FailsWith(ret, "ProjectDirAbsent")

\* open with everything loaded and iOS unsupported.
C18_WitnessUnsupported ==
    /\ IsCliCall
    /\ call.command = "open"
    /\ ~call.project_dir_exists
    /\ Loaded
    /\ FailsWith(ret, "Unsupported")

\* An archive that ran for the second target.
C18_WitnessArchived ==
    /\ IsCliCall
    /\ call.command = "archive"
    /\ IsOk(ret)
    /\ \E i \in DOMAIN trace : trace[i].step = "archive" /\ trace[i].arg = 2

(***************************************************************************)
(* Properties of apple::deps::install_all                                  *)
(***************************************************************************)
IsDepsCall == call.op = "install_all"

\* The packages that were outdated when the call began and no longer are.
BroughtUpToDate ==
    {p \in PackageNames : call.packages[p] = "outdated" /\ files[p] = "current"}

\* The prompt was answered with a yes, or with nothing for the default yes.
AnsweredYes ==
    \E i \in StepsNamed(trace, "prompt") :
        trace[i].ok /\ yes_no(trace[i].arg, Some("Yes")) = Some("Yes")

AnsweredNo ==
    \E i \in StepsNamed(trace, "prompt") :
        trace[i].ok /\ yes_no(trace[i].arg, Some("Yes")) = Some("No")

\* An answer that is neither yes nor no is followed by the prompt again.
PromptRepeats ==
    \A i \in StepsNamed(trace, "prompt") :
        (trace[i].ok /\ IsNone(yes_no(trace[i].arg, Some("Yes"))))
            => /\ i = Len(trace) => Pending
               /\ i < Len(trace) => trace[i + 1].step = "prompt"

\* Missing packages are installed whatever the mode.
MissingInstalled ==
    IsOk(ret) => \A p \in PackageNames : files[p] # "missing"

\* C19: install_all updates outdated packages only when the run is
\* interactive and the user answered yes to the update prompt: in
\* non-interactive mode no outdated package is ever updated (missing ones
\* are still installed), a no updates nothing, and an unrecognised answer
\* makes the prompt repeat.
C19_UpdatesOnlyOnYes ==
    IsDepsCall
        => /\ BroughtUpToDate # {} => ~call.non_interactive /\ AnsweredYes
           /\ call.non_interactive => StepsNamed(trace, "update") = {}
           /\ AnsweredNo => BroughtUpToDate = {}
           /\ StepsNamed(trace, "update") # {} => AnsweredYes
           /\ PromptRepeats
           /\ MissingInstalled

\* C19 as it holds: without reinstall_deps an outdated package is brought
\* up to date only in an interactive run after a yes; update_package runs
\* for the outdated packages only then, whatever reinstall_deps is; with
\* reinstall_deps every package is reinstalled before the outdated check.
C19_UpdatesOnlyOnYesUnlessReinstall ==
    IsDepsCall
        => /\ (~call.reinstall_deps /\ BroughtUpToDate # {})
                => ~call.non_interactive /\ AnsweredYes
           /\ call.non_interactive => StepsNamed(trace, "update") = {}
           /\ (~call.reinstall_deps /\ AnsweredNo) => BroughtUpToDate = {}
           /\ StepsNamed(trace, "update") # {}
                => ~call.non_interactive /\ AnsweredYes
           /\ AnsweredNo => StepsNamed(trace, "update") = {}
           /\ PromptRepeats
           /\ MissingInstalled
           /\ (call.reinstall_deps /\ StepsNamed(trace, "outdated") # {})
                => Outdated(trace) = {}

\* An interactive run that updated a package after an answer that was not
\* recognised and then a yes.
C19_Witness ==
    /\ IsDepsCall
    /\ ~call.non_interactive
    /\ ~call.reinstall_deps
    /\ Cardinality(StepsNamed(trace, "prompt")) = 2
    /\ BroughtUpToDate # {}
    /\ IsOk(ret)

\* A non-interactive run with an outdated package left as it was and a
\* missing one installed.
C19_WitnessNonInteractive ==
    /\ IsDepsCall
    /\ call.non_interactive
    /\ IsOk(ret)
    /\ \E p \in PackageNames : files[p] = "outdated"
    /\ \E p \in PackageNames : call.packages[p] = "missing"

\* A non-interactive run with reinstall_deps that brought an outdated
\* package up to date.
C19_WitnessReinstalled ==
    /\ IsDepsCall
    /\ call.non_interactive
    /\ call.reinstall_deps
    /\ BroughtUpToDate # {}
    /\ IsOk(ret)

\* A failed step of the kind given has made install_all return the error.
Aborts(name, kind) ==
    \A i \in StepsNamed(trace, name) :
        ~trace[i].ok => i = Len(trace) /\ FailsWith(ret, kind)

\* C20: the Rust Xcode plugin is optional: with skip_dev_tools off a failed
\* xcode_plugin::install still lets install_all return Ok, with
\* skip_dev_tools on it is never attempted; a failed package installation,
\* outdated check, prompt or package update makes install_all return Err.
C20_PluginOptional ==
    IsDepsCall
        => /\ StepsNamed(trace, "xcode_plugin") # {}
                => ~call.skip_dev_tools /\ IsOk(ret)
           /\ call.skip_dev_tools
                => /\ StepsNamed(trace, "xcode_plugin") = {}
                   /\ StepsNamed(trace, "developer_tools") = {}
           /\ Aborts("install", "InstallFailed")
           /\ Aborts("outdated", "OutdatedFailed")
           /\ Aborts("prompt", "PromptFailed")
           /\ Aborts("update", "InstallFailed")

\* The plugin installation failed and install_all returned Ok.
C20_Witness ==
    /\ IsDepsCall
    /\ ~call.skip_dev_tools
    /\ StepsNamed(trace, "xcode_plugin") # {}
    /\ ~Last.ok
    /\ IsOk(ret)

\* An update failed and install_all returned the error.
C20_WitnessAborted ==
    /\ IsDepsCall
    /\ trace # <<>>
    /\ Last.step = "update"
    /\ FailsWith(ret, "InstallFailed")

(***************************************************************************)
(* Properties of GemCache                                                  *)
(***************************************************************************)
IsGemCall == call.op \in {"new", "contains", "reinstall"}

GemLists == StepsNamed(trace, "gem list")

\* C21: over any sequence of contains and reinstall calls on one GemCache
\* `gem list` is executed at most once: after the first successful
\* initialize no later call runs it again, whatever the listing contained.
C21_GemListAtMostOnce ==
    IsGemCall
        => \A i \in GemLists : trace[i].ok => \A j \in GemLists : j <= i

\* What holds of C21: `gem list` is run again only after a failed listing
\* or after one that named no gem.
C21_GemListOnceWhenNonEmpty ==
    IsGemCall
        => \A i \in GemLists :
               (trace[i].ok /\ trace[i].arg # {}) => \A j \in GemLists : j <= i

\* Two successful listings on one cache: the first one named no gem.
C21_WitnessListedTwice ==
    /\ IsGemCall
    /\ Cardinality({i \in GemLists : trace[i].ok}) = 2
    /\ call.op = "contains"
    /\ IsOk(ret)

\* A query answered from the set with one listing behind it.
C21_WitnessCached ==
    /\ IsGemCall
    /\ files.set # {}
    /\ Len(trace) = 1
    /\ call.op = "contains"
    /\ IsOk(ret) /\ ret.val

(***************************************************************************)
(* Properties of the template variables of apple::project::gen             *)
(***************************************************************************)
IsTemplateVarsCall == call.op = "template_vars"

\* The variables of one platform as the getters of its metadata give them.
LibrariesMatch(vars_libraries, p) == vars_libraries = UnwrapOr(p.libraries, <<>>)

VendorSdksMatch(vars_vendor_sdks, p) == vars_vendor_sdks = UnwrapOr(p.vendor_sdks, <<>>)

IosVarsMatch(v, p) ==
    /\ LibrariesMatch(v.ios_libraries, p)
    /\ v.ios_frameworks = UnwrapOr(p.frameworks, <<>>)
    /\ v.ios_vendor_frameworks = UnwrapOr(p.vendor_frameworks, <<>>)
    /\ VendorSdksMatch(v.ios_vendor_sdks, p)
    /\ v.ios_pods = UnwrapOr(p.pods, <<>>)
    /\ v.ios_pod_options = UnwrapOr(p.pod_options, <<>>)
    /\ v.ios_additional_targets = p.additional_targets
    /\ v.ios_pre_build_scripts = p.pre_build_scripts
    /\ v.ios_post_compile_scripts = p.post_compile_scripts
    /\ v.ios_post_build_scripts = p.post_build_scripts
    /\ v.ios_command_line_arguments = UnwrapOr(p.command_line_arguments, <<>>)
    /\ v.ios_valid_archs = IF IsSome(p.valid_archs) THEN Unwrap(p.valid_archs)
                           ELSE <<"arm64", "x86_64">>

MacosVarsMatchBut(v, p) ==
    /\ v.macos_frameworks = UnwrapOr(p.frameworks, <<>>)
    /\ v.macos_vendor_frameworks = UnwrapOr(p.vendor_frameworks, <<>>)
    /\ v.macos_pods = UnwrapOr(p.pods, <<>>)
    /\ v.macos_pod_options = UnwrapOr(p.pod_options, <<>>)
    /\ v.macos_additional_targets = p.additional_targets
    /\ v.macos_pre_build_scripts = p.pre_build_scripts
    /\ v.macos_post_compile_scripts = p.post_compile_scripts
    /\ v.macos_post_build_scripts = p.post_build_scripts
    /\ v.macos_command_line_arguments = UnwrapOr(p.command_line_arguments, <<>>)

\* C22: every macos-* template variable is filled from the macOS metadata
\* and every ios-* variable from the iOS metadata, with the matching field:
\* macos-libraries is macos().libraries(), macos-vendor-sdks is
\* macos().vendor_sdks(); ios-valid-archs defaults to [arm64, x86_64].
C22_VarsFromMatchingPlatform ==
    (IsTemplateVarsCall /\ IsOk(ret))
        => /\ IosVarsMatch(ret.val, call.ios)
           /\ MacosVarsMatchBut(ret.val, call.macos)
           /\ LibrariesMatch(ret.val.macos_libraries, call.macos)
           /\ VendorSdksMatch(ret.val.macos_vendor_sdks, call.macos)

\* What holds of C22: the ios-* variables, and the macos-* variables other
\* than macos-libraries and macos-vendor-sdks, come from the matching field;
\* macos-libraries is the iOS libraries and macos-vendor-sdks the macOS
\* vendor frameworks.
C22_VarsButTwo ==
    (IsTemplateVarsCall /\ IsOk(ret))
        => /\ IosVarsMatch(ret.val, call.ios)
           /\ MacosVarsMatchBut(ret.val, call.macos)
           /\ LibrariesMatch(ret.val.macos_libraries, call.ios)
           /\ ret.val.macos_vendor_sdks = UnwrapOr(call.macos.vendor_frameworks, <<>>)

\* macOS libraries given, iOS libraries not: macos-libraries is empty.
C22_WitnessLibraries ==
    /\ IsTemplateVarsCall
    /\ IsOk(ret)
    /\ IsSome(call.macos.libraries)
    /\ IsNone(call.ios.libraries)
    /\ ret.val.macos_libraries = <<>>

\* macOS vendor SDKs given, vendor frameworks not: macos-vendor-sdks is empty.
C22_WitnessVendorSdks ==
    /\ IsTemplateVarsCall
    /\ IsOk(ret)
    /\ IsSome(call.macos.vendor_sdks)
    /\ IsNone(call.macos.vendor_frameworks)
    /\ ret.val.macos_vendor_sdks = <<>>

(***************************************************************************)
(* Properties of the doctor reports                                        *)
(***************************************************************************)
IsDoctorCall == call.op = "doctor"

Has(report, kind) == \E i \in DOMAIN report.bullets : report.bullets[i] = kind

\* The status is that of the worst bullet.
StatusAgrees(report) ==
    /\ report.status = "Failure" <=> Has(report, "Failure")
    /\ report.status = "Warning" <=> (~Has(report, "Failure") /\ Has(report, "Warning"))
    /\ report.status = "Success" <=> (~Has(report, "Failure") /\ ~Has(report, "Warning"))

\* C23: in every report of the checks of doctor::exec the status agrees
\* with the bullets: Failure exactly when a bullet is a Failure, otherwise
\* Warning exactly when a bullet is a Warning, otherwise Success.
C23_StatusAgreesWithBullets ==
    IsDoctorCall => \A i \in DOMAIN trace : StatusAgrees(trace[i])

\* What holds of C23: the reports of check_rust, check_apple and
\* check_device_list agree with their bullets; check_cargo_mobile,
\* check_os and check_android take the status from a condition of their own.
C23_StatusAgreesInThreeChecks ==
    IsDoctorCall
        => \A i \in DOMAIN trace :
               /\ trace[i].check \in {"rust", "apple", "device_list"}
                    => StatusAgrees(trace[i])
               /\ trace[i].check = "cargo_mobile"
                    => (trace[i].status = "Failure" <=> Has(trace[i], "Warning"))
               /\ trace[i].check = "os" => trace[i].status = "Success"
               /\ trace[i].check = "android"
                    => (trace[i].status = "Failure" <=> Has(trace[i], "Warning"))

\* exec returned a summary in which check_android reports Failure with a
\* Warning as the only bullet, all other reports agreeing.
C23_WitnessAndroid ==
    /\ IsDoctorCall
    /\ IsOk(ret)
    /\ ret.val[5].status = "Failure"
    /\ ret.val[5].bullets = <<"Warning">>
    /\ \A i \in {1, 2, 3, 4, 6} : StatusAgrees(ret.val[i])

\* check_os reports Success over a Failure bullet.
C23_WitnessOs ==
    /\ IsDoctorCall
    /\ Len(trace) >= 3
    /\ trace[3].status = "Success"
    /\ Has(trace[3], "Failure")

\* An Apple report with a warning-free failure that agrees.
C23_WitnessApple ==
    /\ IsDoctorCall
    /\ Len(trace) >= 4
    /\ trace[4].status = "Failure"
    /\ StatusAgrees(trace[4])

====
